---- MODULE Spec2Model ----
(***************************************************************************)
(* Model of the artifact-to-IR normalizer (internal/parser/evm ABIParser)  *)
(* of the MCP server generator.  Go strings are sequences of one-character *)
(* strings, so that slicing, searching, formatting and parsing of numbers  *)
(* are computed the way the Go code computes them.                         *)
(***************************************************************************)
EXTENDS Integers, Sequences, FiniteSets, TLC

(***************************************************************************)
(* Bounds of the model                                                     *)
(***************************************************************************)
MaxTypeLen == 4

MaxItems == 3

(***************************************************************************)
(* Go string primitives (0-based indices, as in package strings)           *)
(***************************************************************************)
Digits == <<"0", "1", "2", "3", "4", "5", "6", "7", "8", "9">>

Whitespace == {" ", "\t", "\n", "\r"}

HasPrefix(s, prefix) ==
    /\ Len(s) >= Len(prefix)
    /\ SubSeq(s, 1, Len(prefix)) = prefix

HasSuffix(s, suffix) ==
    /\ Len(s) >= Len(suffix)
    /\ SubSeq(s, Len(s) - Len(suffix) + 1, Len(s)) = suffix

\* strings.Index: the 0-based position of the first occurrence, -1 if none
Index(s, substr) ==
    LET hits == {i \in 0..(Len(s) - Len(substr)) :
                    SubSeq(s, i + 1, i + Len(substr)) = substr}
    IN  IF hits = {} THEN -1
        ELSE CHOOSE i \in hits : \A j \in hits : i <= j

Contains(s, substr) == Index(s, substr) # -1

\* s[lo:hi] is defined only for 0 <= lo <= hi <= len(s); Go panics otherwise
SliceOK(s, lo, hi) == 0 <= lo /\ lo <= hi /\ hi <= Len(s)

Slice(s, lo, hi) == SubSeq(s, lo + 1, hi)

RECURSIVE TrimLeft(_)
TrimLeft(s) ==
    IF s # <<>> /\ Head(s) \in Whitespace THEN TrimLeft(Tail(s)) ELSE s

RECURSIVE TrimRight(_)
TrimRight(s) ==
    IF s # <<>> /\ s[Len(s)] \in Whitespace
    THEN TrimRight(SubSeq(s, 1, Len(s) - 1)) ELSE s

TrimSpace(s) == TrimRight(TrimLeft(s))

DigitVal(c) == (CHOOSE i \in 1..10 : Digits[i] = c) - 1

IsDigit(c) == \E i \in 1..10 : Digits[i] = c

RECURSIVE DigitsValue(_)
DigitsValue(s) ==
    IF s = <<>> THEN 0
    ELSE 10 * DigitsValue(SubSeq(s, 1, Len(s) - 1)) + DigitVal(s[Len(s)])

\* the value of a sign and a digit string, if it is one
AtoiBody(negative, body) ==
    IF body = <<>> \/ \E i \in 1..Len(body) : ~IsDigit(body[i])
    THEN [ok |-> FALSE, val |-> 0]
    ELSE [ok |-> TRUE,
          val |-> IF negative THEN 0 - DigitsValue(body) ELSE DigitsValue(body)]

\* strconv.Atoi: optional sign, then one or more decimal digits
Atoi(s) ==
    IF s # <<>> /\ s[1] \in {"+", "-"}
    THEN AtoiBody(s[1] = "-", Tail(s))
    ELSE AtoiBody(FALSE, s)

RECURSIVE NatToStr(_)
NatToStr(n) ==
    IF n < 10 THEN <<Digits[n + 1]>>
    ELSE NatToStr(n \div 10) \o <<Digits[(n % 10) + 1]>>

\* fmt.Sprintf("%d", n)
Itoa(n) == IF n < 0 THEN <<"-">> \o NatToStr(0 - n) ELSE NatToStr(n)

RECURSIVE Join(_, _)
Join(strs, sep) ==
    IF strs = <<>> THEN <<>>
    ELSE IF Len(strs) = 1 THEN strs[1]
    ELSE strs[1] \o sep \o Join(Tail(strs), sep)

(***************************************************************************)
(* String literals used by the parser                                      *)
(***************************************************************************)
S_tuple == <<"t", "u", "p", "l", "e">>

S_mapping == <<"m", "a", "p", "p", "i", "n", "g", "(">>

S_arrow == <<"=", ">">>

S_dyn == <<"[", "]">>

(***************************************************************************)
(* ir.ParameterType and the type resolver                                  *)
(***************************************************************************)
\* a Go map that holds no key
EmptyMap == [k \in {} |-> TRUE]

\* the zero value ir.ParameterType{}
ZeroParameterType ==
    [BaseType |-> <<>>, IsArray |-> FALSE, ArraySize |-> 0,
     IsMap |-> FALSE, MapKeyType |-> <<>>,
     Components |-> <<>>, ComponentsNil |-> TRUE,
     ChainData |-> EmptyMap, ChainDataNil |-> TRUE]

\* the "[N]" / "[]" rendering shared by the description builders
ArraySuffix(t) ==
    IF t.ArraySize > 0 THEN <<"[">> \o Itoa(t.ArraySize) \o <<"]">>
    ELSE S_dyn

\* the type description of a tuple: "{name: type, ...}"
RECURSIVE TupleDescBody(_, _)
TupleDescBody(comps, i) ==
    IF i > Len(comps) THEN <<>>
    ELSE (IF i > 1 THEN <<",", " ">> ELSE <<>>)
         \o comps[i].Name \o <<":", " ">>
         \o comps[i].Type.BaseType
         \o (IF comps[i].Type.IsArray THEN ArraySuffix(comps[i].Type) ELSE <<>>)
         \o TupleDescBody(comps, i + 1)

TupleDesc(comps) == <<"{">> \o TupleDescBody(comps, 1) \o <<"}">>

\* the fixed-size branch once the size token has been converted
FixedArray(typeStr, start, size) ==
    IF ~size.ok
    THEN [err |-> "error", IsArray |-> TRUE, ArraySize |-> 0, BaseType |-> <<>>]
    ELSE [err |-> "nil", IsArray |-> TRUE, ArraySize |-> size.val,
          BaseType |-> Slice(typeStr, 0, start)]

\* steps 1 and 2 of the resolver, start and end being the positions of the
\* first "[" and the first "]"
ArrayPartAt(typeStr, start, end) ==
    IF ~(HasSuffix(typeStr, S_dyn) \/ Contains(typeStr, <<"[">>))
    THEN [err |-> "nil", IsArray |-> FALSE, ArraySize |-> 0,
          BaseType |-> typeStr]
    ELSE IF Contains(typeStr, <<"[">>) /\ ~HasSuffix(typeStr, S_dyn)
    THEN IF start # -1 /\ end # -1
         THEN IF ~SliceOK(typeStr, start + 1, end)
              THEN [err |-> "panic", IsArray |-> TRUE, ArraySize |-> 0,
                    BaseType |-> <<>>]
              ELSE FixedArray(typeStr, start,
                              Atoi(Slice(typeStr, start + 1, end)))
         ELSE [err |-> "nil", IsArray |-> TRUE, ArraySize |-> 0,
               BaseType |-> Slice(typeStr, 0, start)]
    ELSE [err |-> "nil", IsArray |-> TRUE, ArraySize |-> 0,
          BaseType |-> Slice(typeStr, 0, Len(typeStr) - 2)]

\* steps 1 and 2 of the resolver: array-ness, size and base type
ArrayPart(typeStr) ==
    ArrayPartAt(typeStr, Index(typeStr, <<"[">>), Index(typeStr, <<"]">>))

\* step 4 of the resolver, keyEnd being the position of the first "=>"
MapPartAt(base, keyStart, keyEnd) ==
    IF keyEnd = -1
    THEN [err |-> "nil", IsMap |-> TRUE, MapKeyType |-> <<>>,
          BaseType |-> base]
    ELSE IF ~SliceOK(base, keyStart, keyEnd)
            \/ ~SliceOK(base, keyEnd + 2, Len(base) - 1)
    THEN [err |-> "panic", IsMap |-> TRUE, MapKeyType |-> <<>>,
          BaseType |-> base]
    ELSE [err |-> "nil", IsMap |-> TRUE,
          MapKeyType |-> TrimSpace(Slice(base, keyStart, keyEnd)),
          BaseType |-> TrimSpace(Slice(base, keyEnd + 2, Len(base) - 1))]

\* step 4 of the resolver: the naive mapping(K => V) split
MapPart(base) ==
    IF ~HasPrefix(base, S_mapping)
    THEN [err |-> "nil", IsMap |-> FALSE, MapKeyType |-> <<>>,
          BaseType |-> base]
    ELSE MapPartAt(base, Len(S_mapping), Index(base, S_arrow))

\* step 5 of the resolver: the array keys of the chain-specific attributes
ArrayChainData(arraySize) ==
    IF arraySize > 0
    THEN ("isArray" :> TRUE) @@ ("isFixedArray" :> TRUE)
         @@ ("arraySize" :> arraySize)
    ELSE ("isArray" :> TRUE) @@ ("isDynamicArray" :> TRUE)

\* the tuple keys of the chain-specific attributes
TupleChainData(components) ==
    ("isTuple" :> TRUE) @@ ("typeDescription" :> TupleDesc(components))

\* the ParameterType returned once array part, components and map part are known
ResolvedType(arr, isTuple, comps, map) ==
    IF map.err # "nil" THEN [err |-> map.err, val |-> ZeroParameterType]
    ELSE [err |-> "nil",
          val |-> [BaseType      |-> map.BaseType,
                   IsArray       |-> arr.IsArray,
                   ArraySize     |-> arr.ArraySize,
                   IsMap         |-> map.IsMap,
                   MapKeyType    |-> map.MapKeyType,
                   Components    |-> comps.val,
                   ComponentsNil |-> ~isTuple,
                   \* the tuple keys and the array keys are disjoint
                   ChainData     |->
                       (IF arr.IsArray THEN ArrayChainData(arr.ArraySize)
                        ELSE EmptyMap)
                       @@ (IF isTuple THEN TupleChainData(comps.val)
                           ELSE EmptyMap),
                   ChainDataNil  |-> ~isTuple /\ ~arr.IsArray]]

\* the resolver after the tuple block
AfterTuple(arr, isTuple, comps) ==
    IF comps.err # "nil" THEN [err |-> comps.err, val |-> ZeroParameterType]
    ELSE ResolvedType(arr, isTuple, comps, MapPart(arr.BaseType))

\* the parameters built from the inputs and their resolved types; the loop
\* ends at the first input whose type fails
CollectParameters(inputs, types) ==
    IF \E i \in 1..Len(inputs) : types[i].err # "nil"
    THEN [err |-> types[CHOOSE i \in 1..Len(inputs) :
                            /\ types[i].err # "nil"
                            /\ \A j \in 1..(i - 1) : types[j].err = "nil"].err,
          val |-> <<>>]
    ELSE [err |-> "nil",
          val |-> [i \in 1..Len(inputs) |->
                      [Name |-> inputs[i].Name, Type |-> types[i].val]]]

RECURSIVE parseParameterType(_, _, _)
RECURSIVE parseParameters(_)
RECURSIVE AfterArray(_, _, _)

parseParameters(inputs) ==
    CollectParameters(inputs,
        [i \in 1..Len(inputs) |->
            parseParameterType(inputs[i].Type, inputs[i].Components,
                               inputs[i].ComponentsNil)])

\* AfterArray resolving a supplied component list whatever the base type
AfterArrayAnyBase(arr, components, componentsNil) ==
    IF arr.err # "nil" THEN [err |-> arr.err, val |-> ZeroParameterType]
    ELSE IF ~componentsNil
    THEN AfterTuple(arr, TRUE, parseParameters(components))
    ELSE AfterTuple(arr, FALSE, [err |-> "nil", val |-> <<>>])

\* the resolver after the array block: the tuple block
AfterArray(arr, components, componentsNil) ==
    IF arr.err # "nil" THEN [err |-> arr.err, val |-> ZeroParameterType]
    ELSE IF arr.BaseType = S_tuple /\ ~componentsNil
    THEN AfterTuple(arr, TRUE, parseParameters(components))
    ELSE AfterTuple(arr, FALSE, [err |-> "nil", val |-> <<>>])

parseParameterType(typeStr, components, componentsNil) ==
    AfterArray(ArrayPart(typeStr), components, componentsNil)

(***************************************************************************)
(* Description synthesis                                                   *)
(***************************************************************************)
S_parameters == <<" ", "-", " ", "P", "a", "r", "a", "m", "e", "t", "e", "r", "s", ":", " ">>

S_returns == <<" ", "-", " ", "R", "e", "t", "u", "r", "n", "s", ":", " ">>

S_output == <<"o", "u", "t", "p", "u", "t">>

S_event == <<" ", "e", "v", "e", "n", "t">>

S_error == <<" ", "e", "r", "r", "o", "r">>

S_indexed == <<" ", "(", "i", "n", "d", "e", "x", "e", "d", ")">>

S_constructor == <<"c", "o", "n", "s", "t", "r", "u", "c", "t", "o", "r">>

S_fallback == <<"f", "a", "l", "l", "b", "a", "c", "k">>

S_receive == <<"r", "e", "c", "e", "i", "v", "e">>

S_ctorDesc == <<"C", "o", "n", "t", "r", "a", "c", "t", " ", "c", "o", "n", "s", "t", "r", "u", "c", "t", "o", "r">>

S_fallbackDesc == <<"F", "a", "l", "l", "b", "a", "c", "k", " ", "f", "u", "n", "c", "t", "i", "o", "n">>

S_receiveDesc == <<"R", "e", "c", "e", "i", "v", "e", " ", "f", "u", "n", "c", "t", "i", "o", "n">>

\* the type of a parameter as the function and event descriptions print it
DescType(t) ==
    IF t.IsArray THEN t.BaseType \o ArraySuffix(t)
    ELSE IF Len(t.Components) > 0 THEN S_tuple
    ELSE t.BaseType

RECURSIVE DescInputs(_, _)
DescInputs(params, i) ==
    IF i > Len(params) THEN <<>>
    ELSE (IF i > 1 THEN <<",", " ">> ELSE <<>>)
         \o params[i].Name \o <<" ", "(">> \o DescType(params[i].Type) \o <<")">>
         \o DescInputs(params, i + 1)

RECURSIVE DescOutputs(_, _)
DescOutputs(params, i) ==
    IF i > Len(params) THEN <<>>
    ELSE (IF i > 1 THEN <<",", " ">> ELSE <<>>)
         \o (IF params[i].Name = <<>> THEN S_output \o Itoa(i - 1)
             ELSE params[i].Name)
         \o <<" ", "(">> \o DescType(params[i].Type) \o <<")">>
         \o DescOutputs(params, i + 1)

FunctionDescription(name, inputs, outputs) ==
    name
    \o (IF Len(inputs) > 0 THEN S_parameters \o DescInputs(inputs, 1) ELSE <<>>)
    \o (IF Len(outputs) > 0 THEN S_returns \o DescOutputs(outputs, 1) ELSE <<>>)

RECURSIVE DescEventParams(_, _)
DescEventParams(params, i) ==
    IF i > Len(params) THEN <<>>
    ELSE (IF i > 1 THEN <<",", " ">> ELSE <<>>)
         \o params[i].Name \o <<" ", "(">> \o DescType(params[i].Type) \o <<")">>
         \o (IF params[i].Indexed THEN S_indexed ELSE <<>>)
         \o DescEventParams(params, i + 1)

EventDescription(name, params) ==
    name \o S_event
    \o (IF Len(params) > 0 THEN S_parameters \o DescEventParams(params, 1)
        ELSE <<>>)

(***************************************************************************)
(* Signatures                                                              *)
(***************************************************************************)
InputTypes(inputs) == [i \in 1..Len(inputs) |-> inputs[i].Type]

buildFunctionSignature(name, inputs) ==
    name \o <<"(">> \o Join(InputTypes(inputs), <<",">>) \o <<")">>

buildEventSignature(name, inputs) ==
    name \o <<"(">> \o Join(InputTypes(inputs), <<",">>) \o <<")">>

(***************************************************************************)
(* Per-entry parsers.  Each returns err ("nil", "error" or "panic"), the   *)
(* entity built and, for functions, the overload counter map afterwards.   *)
(***************************************************************************)
\* FunctionMutability with the payable flag tested before the constant flag
FunctionMutabilityPayableFirst(item) ==
    IF item.StateMutability # "" THEN item.StateMutability
    ELSE IF item.Payable THEN "payable"
    ELSE IF item.Constant THEN "view"
    ELSE "nonpayable"

\* the legacy-flag fallback of parseFunction
FunctionMutability(item) ==
    IF item.StateMutability # "" THEN item.StateMutability
    ELSE IF item.Constant THEN "view"
    ELSE IF item.Payable THEN "payable"
    ELSE "nonpayable"

\* the legacy-flag fallback of parseConstructor and parseFallback
SpecialMutability(item) ==
    IF item.StateMutability # "" THEN item.StateMutability
    ELSE IF item.Payable THEN "payable"
    ELSE "nonpayable"

\* the name parseFunction gives an entry under the counter map sigs
OverloadName(name, sigs) ==
    IF name \in DOMAIN sigs THEN name \o <<"_">> \o Itoa(sigs[name])
    ELSE name

\* OverloadCount without the increment for a name already counted
OverloadCountStuck(name, sigs) ==
    IF name \in DOMAIN sigs THEN sigs ELSE (name :> 1) @@ sigs

\* the counter map after parseFunction has named an entry
OverloadCount(name, sigs) ==
    IF name \in DOMAIN sigs
    THEN [sigs EXCEPT ![name] = @ + 1]
    ELSE (name :> 1) @@ sigs

ZeroFunction ==
    [Name |-> <<>>, Description |-> <<>>, Signature |-> <<>>,
     Selector |-> <<>>, Inputs |-> <<>>, Outputs |-> <<>>,
     StateMutability |-> "", Visibility |-> "",
     IsConstructor |-> FALSE, IsFallback |-> FALSE, IsReceive |-> FALSE,
     ChainData |-> EmptyMap, ChainDataNil |-> TRUE]

\* the chain-specific attributes of a Function
FunctionChainData(item, functionName, signature) ==
    (IF item.Constant THEN ("constant" :> TRUE) ELSE EmptyMap)
    @@ (IF item.Payable THEN ("payable" :> TRUE) ELSE EmptyMap)
    @@ (IF functionName # item.Name
        THEN ("originalName" :> item.Name)
             @@ ("originalSignature" :> signature)
        ELSE EmptyMap)

\* parseFunction once inputs, outputs, signature and name are known
BuildFunction(item, sigs, inputs, outputs, signature, functionName) ==
    IF inputs.err # "nil"
    THEN [err |-> inputs.err, val |-> ZeroFunction, sigs |-> sigs]
    ELSE IF outputs.err # "nil"
    THEN [err |-> outputs.err, val |-> ZeroFunction, sigs |-> sigs]
    ELSE [err  |-> "nil",
          sigs |-> OverloadCount(item.Name, sigs),
          val  |-> [Name            |-> functionName,
                    Description     |-> FunctionDescription(item.Name,
                                            inputs.val, outputs.val),
                    Signature       |-> signature,
                    Selector        |-> <<>>,
                    Inputs          |-> inputs.val,
                    Outputs         |-> outputs.val,
                    StateMutability |-> FunctionMutability(item),
                    Visibility      |-> "public",
                    IsConstructor   |-> FALSE,
                    IsFallback      |-> FALSE,
                    IsReceive       |-> FALSE,
                    ChainData       |-> FunctionChainData(item, functionName,
                                                          signature),
                    ChainDataNil    |-> FALSE]]

parseFunction(item, sigs) ==
    BuildFunction(item, sigs,
                  parseParameters(item.Inputs), parseParameters(item.Outputs),
                  buildFunctionSignature(item.Name, item.Inputs),
                  OverloadName(item.Name, sigs))

ZeroEvent ==
    [Name |-> <<>>, Description |-> <<>>, Signature |-> <<>>,
     Parameters |-> <<>>, ChainData |-> EmptyMap, ChainDataNil |-> TRUE]

IndexedCount(inputs) == Cardinality({i \in 1..Len(inputs) : inputs[i].Indexed})

\* the chain-specific attributes of an Event
EventChainData(item) ==
    (IF item.Anonymous THEN ("anonymous" :> TRUE) ELSE EmptyMap)
    @@ ("indexedCount" :> IndexedCount(item.Inputs))

\* the Event once its parameters are known
BuildEvent(item, parameters) ==
    [err |-> "nil",
     val |-> [Name         |-> item.Name,
              Description  |-> EventDescription(item.Name, parameters),
              Signature    |-> buildEventSignature(item.Name, item.Inputs),
              Parameters   |-> parameters,
              ChainData    |-> EventChainData(item),
              ChainDataNil |-> FALSE]]

\* parseEvent once the types of its inputs are resolved
EventOf(item, types) ==
    IF types.err # "nil" THEN [err |-> types.err, val |-> ZeroEvent]
    ELSE BuildEvent(item, [i \in 1..Len(item.Inputs) |->
                              [Name    |-> item.Inputs[i].Name,
                               Type    |-> types.val[i].Type,
                               Indexed |-> item.Inputs[i].Indexed]])

parseEvent(item) == EventOf(item, parseParameters(item.Inputs))

ZeroContractError ==
    [Name |-> <<>>, Description |-> <<>>, Parameters |-> <<>>,
     ParametersNil |-> TRUE]

\* parseError once its parameters are resolved
ErrorOf(item, parameters) ==
    IF parameters.err # "nil"
    THEN [err |-> parameters.err, val |-> ZeroContractError]
    ELSE [err |-> "nil",
          val |-> [Name        |-> item.Name,
                   Description |-> item.Name \o S_error,
                   Parameters  |-> parameters.val,
                   ParametersNil |-> FALSE]]

parseError(item) == ErrorOf(item, parseParameters(item.Inputs))

\* parseConstructor once its inputs are resolved
ConstructorOf(item, inputs) ==
    IF inputs.err # "nil" THEN [err |-> inputs.err, val |-> ZeroFunction]
    ELSE [err |-> "nil",
          val |-> [ZeroFunction EXCEPT
                     !.Name            = S_constructor,
                     !.Description     = S_ctorDesc,
                     !.Inputs          = inputs.val,
                     !.StateMutability = SpecialMutability(item),
                     !.IsConstructor   = TRUE]]

parseConstructor(item) == ConstructorOf(item, parseParameters(item.Inputs))

parseFallback(item) ==
    [err |-> "nil",
     val |-> [ZeroFunction EXCEPT
                !.Name            = S_fallback,
                !.Description     = S_fallbackDesc,
                !.StateMutability = SpecialMutability(item),
                !.IsFallback      = TRUE]]

\* parseReceive with the mutability resolved as parseFallback resolves it
parseReceiveDeclared(item) ==
    [err |-> "nil",
     val |-> [ZeroFunction EXCEPT
                !.Name            = S_receive,
                !.Description     = S_receiveDesc,
                !.StateMutability = SpecialMutability(item),
                !.IsReceive       = TRUE]]

parseReceive(item) ==
    [err |-> "nil",
     val |-> [ZeroFunction EXCEPT
                !.Name            = S_receive,
                !.Description     = S_receiveDesc,
                !.StateMutability = "payable",
                !.IsReceive       = TRUE]]

(***************************************************************************)
(* ABIParser.Parse                                                         *)
(***************************************************************************)
\* the ContractIR Parse starts from, before the loop over the entries
S_ethereum == <<"e", "t", "h", "e", "r", "e", "u", "m">>

NewContract(metadata) ==
    [Metadata  |-> IF metadata.Chain = <<>>
                   THEN [metadata EXCEPT !.Chain = S_ethereum] ELSE metadata,
     Functions |-> <<>>,
     Events    |-> <<>>,
     Errors    |-> <<>>,
     ErrorsNil |-> FALSE,
     Types     |-> <<>>,
     TypesNil  |-> TRUE]

\* ParseDefault failing the call on an entry of unrecognized kind
ParseDefaultFails(item, contract, sigs) ==
    [err |-> "error", sigs |-> sigs, contract |-> contract]

\* the switch on item.Type has no default case: any other kind is skipped
ParseDefault(item, contract, sigs) ==
    [err |-> "nil", sigs |-> sigs, contract |-> contract]

\* contract.Functions = append(contract.Functions, function), unless err
WithFunction(contract, sigs, f) ==
    [err |-> f.err, sigs |-> sigs,
     contract |-> IF f.err # "nil" THEN contract
                  ELSE [contract EXCEPT !.Functions = Append(@, f.val)]]

\* WithEvent putting the event in front of the ones collected so far
WithEventInFront(contract, sigs, e) ==
    [err |-> e.err, sigs |-> sigs,
     contract |-> IF e.err # "nil" THEN contract
                  ELSE [contract EXCEPT !.Events = <<e.val>> \o @]]

\* contract.Events = append(contract.Events, event), unless err
WithEvent(contract, sigs, e) ==
    [err |-> e.err, sigs |-> sigs,
     contract |-> IF e.err # "nil" THEN contract
                  ELSE [contract EXCEPT !.Events = Append(@, e.val)]]

\* contract.Errors = append(contract.Errors, contractError), unless err
WithError(contract, sigs, e) ==
    [err |-> e.err, sigs |-> sigs,
     contract |-> IF e.err # "nil" THEN contract
                  ELSE [contract EXCEPT !.Errors = Append(@, e.val)]]

\* the case "function": parseFunction also advances the overload counter
WithOverload(contract, f) == WithFunction(contract, f.sigs, f)

\* one iteration of the loop of Parse: the switch on item.Type
ParseItem(item, contract, sigs) ==
    CASE item.Type = "function" ->
            WithOverload(contract, parseFunction(item, sigs))
      [] item.Type = "event" -> WithEvent(contract, sigs, parseEvent(item))
      [] item.Type = "error" -> WithError(contract, sigs, parseError(item))
      [] item.Type = "constructor" ->
            WithFunction(contract, sigs, parseConstructor(item))
      [] item.Type = "fallback" ->
            WithFunction(contract, sigs, parseFallback(item))
      [] item.Type = "receive" ->
            WithFunction(contract, sigs, parseReceive(item))
      [] OTHER -> ParseDefault(item, contract, sigs)

RECURSIVE ParseFrom(_, _, _, _)
RECURSIVE ParseOn(_, _, _)

\* the loop of Parse after an iteration: its failure ends the call
ParseOn(items, i, step) ==
    IF step.err # "nil" THEN step
    ELSE ParseFrom(items, i + 1, step.contract, step.sigs)

\* the loop of Parse from entry i on, run to its end or its first failure
ParseFrom(items, i, contract, sigs) ==
    IF i > Len(items) THEN [err |-> "nil", contract |-> contract, sigs |-> sigs]
    ELSE ParseOn(items, i, ParseItem(items[i], contract, sigs))

\* a whole Parse call on a parser whose counter map is sigs
ParseAll(items, metadata, sigs) ==
    ParseFrom(items, 1, NewContract(metadata), sigs)

(***************************************************************************)
(* The renderer: the built-in templates, executed on a ContractIR.  A file *)
(* is the sequence of the values the template writes between its fixed     *)
(* text, in the order it writes them                                       *)
(***************************************************************************)
Lowers == <<"a", "b", "c", "d", "e", "f", "g", "h", "i", "j", "k", "l", "m",
            "n", "o", "p", "q", "r", "s", "t", "u", "v", "w", "x", "y", "z">>

Uppers == <<"A", "B", "C", "D", "E", "F", "G", "H", "I", "J", "K", "L", "M",
            "N", "O", "P", "Q", "R", "S", "T", "U", "V", "W", "X", "Y", "Z">>

ToUpperChar(c) ==
    IF \E i \in 1..Len(Lowers) : Lowers[i] = c
    THEN Uppers[CHOOSE i \in 1..Len(Lowers) : Lowers[i] = c]
    ELSE c

ToLowerChar(c) ==
    IF \E i \in 1..Len(Uppers) : Uppers[i] = c
    THEN Lowers[CHOOSE i \in 1..Len(Uppers) : Uppers[i] = c]
    ELSE c

\* the template functions
upper(s) == [i \in 1..Len(s) |-> ToUpperChar(s[i])]

lower(s) == [i \in 1..Len(s) |-> ToLowerChar(s[i])]

title(s) == IF Len(s) = 0 THEN s ELSE <<ToUpperChar(s[1])>> \o Tail(s)

\* replace old new s, for one-character old and new
replace(old, new, s) == [i \in 1..Len(s) |-> IF s[i] = old THEN new ELSE s[i]]

\* eq on two interface values: equal dynamic types and equal values
eq(aType, a, bType, b) == aType = bType /\ a = b

S_mcpServer == <<"-", "m", "c", "p", "-", "s", "e", "r", "v", "e", "r">>

S_Schema == <<"S", "c", "h", "e", "m", "a">>

\* a range that emits the functions it keeps last to first
RECURSIVE KeepReversed(_, _)
KeepReversed(functions, kept) ==
    IF functions = <<>> THEN <<>>
    ELSE KeepReversed(Tail(functions), Tail(kept))
         \o (IF kept[1] THEN <<Head(functions)>> ELSE <<>>)

\* the functions a range keeps, in their order
RECURSIVE Keep(_, _)
Keep(functions, kept) ==
    IF functions = <<>> THEN <<>>
    ELSE (IF kept[1] THEN <<Head(functions)>> ELSE <<>>)
         \o Keep(Tail(functions), Tail(kept))

NotSpecial(f) == ~f.IsConstructor /\ ~f.IsFallback /\ ~f.IsReceive

\* exposing every function that is no constructor, fallback or receive,
\* whatever its state mutability
ExposedAnyMutability(f) == NotSpecial(f)

\* the condition of the enum, the tool list and the dispatch branches
Exposed(f) ==
    /\ NotSpecial(f)
    /\ \/ eq("string", f.StateMutability, "string", "view")
       \/ eq("string", f.StateMutability, "string", "pure")

\* the condition of the first list of the README, which compares the
\* StateMutability value itself with a string
ExposedUnformatted(f) ==
    /\ NotSpecial(f)
    /\ \/ eq("ir.StateMutability", f.StateMutability, "string", "view")
       \/ eq("ir.StateMutability", f.StateMutability, "string", "pure")

ExposedFunctions(contract) ==
    Keep(contract.Functions,
         [i \in 1..Len(contract.Functions) |-> Exposed(contract.Functions[i])])

renderPackageJSON(contract) ==
    [name        |-> replace(" ", "-", lower(contract.Metadata.Name))
                     \o S_mcpServer,
     description |-> contract.Metadata.Name]

EnumMember(f) == [member |-> upper(f.Name), value |-> f.Name]

SchemaOf(f) ==
    [name   |-> title(f.Name) \o S_Schema,
     fields |-> [i \in 1..Len(f.Inputs) |->
                    [name |-> f.Inputs[i].Name, validator |-> "z.string()",
                     describe |-> <<>>]]]

ABIParam(param) ==
    [name |-> param.Name, type |-> param.Type.BaseType,
     components |-> param.Type.IsArray]

ABIEntry(f) ==
    [name    |-> f.Name,
     inputs  |-> [i \in 1..Len(f.Inputs) |-> ABIParam(f.Inputs[i])],
     outputs |-> [i \in 1..Len(f.Outputs) |-> ABIParam(f.Outputs[i])],
     stateMutability |-> f.StateMutability]

Tool(f) ==
    [name |-> upper(f.Name), description |-> f.Description,
     inputSchema |-> title(f.Name) \o S_Schema]

Branch(f) ==
    [label  |-> upper(f.Name),
     schema |-> title(f.Name) \o S_Schema,
     method |-> f.Name,
     args   |-> [i \in 1..Len(f.Inputs) |-> f.Inputs[i].Name]]

ServerTS(contract, exposed, schemas) ==
    [enum     |-> [i \in 1..Len(exposed) |-> EnumMember(exposed[i])],
     schemas  |-> [i \in 1..Len(schemas) |-> SchemaOf(schemas[i])],
     address  |-> contract.Metadata.Address,
     abi      |-> [i \in 1..Len(contract.Functions) |->
                      ABIEntry(contract.Functions[i])],
     server   |-> contract.Metadata.Name \o S_mcpServer,
     tools    |-> [i \in 1..Len(exposed) |-> Tool(exposed[i])],
     branches |-> [i \in 1..Len(exposed) |-> Branch(exposed[i])],
     default  |-> "Unknown tool: "]

renderServerTS(contract) ==
    ServerTS(contract, ExposedFunctions(contract),
             Keep(contract.Functions,
                  [i \in 1..Len(contract.Functions) |->
                      NotSpecial(contract.Functions[i])]))

ReadmeTool(f) == [name |-> f.Name, description |-> f.Description]

ReadmeFunction(f) ==
    [name    |-> f.Name,
     inputs  |-> [i \in 1..Len(f.Inputs) |->
                     [name |-> f.Inputs[i].Name, type |-> f.Inputs[i].Type]],
     outputs |-> [i \in 1..Len(f.Outputs) |->
                     [name |-> f.Outputs[i].Name, type |-> f.Outputs[i].Type]]]

Readme(contract, tools, exposed) ==
    [name      |-> contract.Metadata.Name,
     tools     |-> [i \in 1..Len(tools) |-> ReadmeTool(tools[i])],
     chain     |-> contract.Metadata.Chain,
     address   |-> contract.Metadata.Address,
     functions |-> [i \in 1..Len(exposed) |-> ReadmeFunction(exposed[i])]]

renderReadme(contract) ==
    Readme(contract,
           Keep(contract.Functions,
                [i \in 1..Len(contract.Functions) |->
                    ExposedUnformatted(contract.Functions[i])]),
           ExposedFunctions(contract))

\* the output paths in the order Render produces them
Paths ==
    <<"package.json", "tsconfig.json", "src/server.ts", "README.md",
      "inspector-e2e/e2e-tests.spec.ts", "playwright.config.ts">>

\* the name under which the template of an output path is loaded
TemplateName(path) ==
    CASE path = "package.json" -> "package.json.tmpl"
      [] path = "tsconfig.json" -> "tsconfig.json.tmpl"
      [] path = "src/server.ts" -> "server.ts.tmpl"
      [] path = "README.md" -> "README.md.tmpl"
      [] path = "inspector-e2e/e2e-tests.spec.ts"
            -> "inspector-e2e/e2e-tests.spec.ts.tmpl"
      [] path = "playwright.config.ts" -> "playwright.config.ts.tmpl"

TemplateNames == {TemplateName(Paths[i]) : i \in 1..Len(Paths)}

\* what the template directory can hold under a name: no file ("absent"), a
\* template that executes ("custom"), a file that cannot be read, a text
\* that is no template, a template whose execution fails
TemplateStates ==
    {"absent", "custom", "unreadable", "unparsable", "unexecutable"}

\* a template directory without any file
NoTemplates == [name \in TemplateNames |-> "absent"]

\* what the built-in template of a path writes for a contract
DefaultContent(path, contract) ==
    CASE path = "package.json" -> renderPackageJSON(contract)
      [] path = "tsconfig.json" -> "tsconfigJSONTemplate"
      [] path = "src/server.ts" -> renderServerTS(contract)
      [] path = "README.md" -> renderReadme(contract)
      [] path = "inspector-e2e/e2e-tests.spec.ts" -> "e2eTestsTemplate"
      [] path = "playwright.config.ts" -> "playwrightConfigTemplate"

\* what a template file of the directory writes: "Test template for <name>"
CustomContent(contract) == <<"Test template for ", contract.Metadata.Name>>

\* a directory that counts only when it holds every template: the built-in
\* template for every file as soon as one file is missing
loadTemplateWholeDirectory(templates, name) ==
    IF \E other \in TemplateNames : templates[other] = "absent"
    THEN [err |-> "nil", template |-> "default"]
    ELSE IF templates[name] = "unreadable"
    THEN [err |-> "error", template |-> ""]
    ELSE [err |-> "nil", template |-> templates[name]]

\* loadTemplate: the file of the directory if there is one, else the built-in
loadTemplate(templates, name) ==
    IF templates[name] = "absent"
    THEN [err |-> "nil", template |-> "default"]
    ELSE IF templates[name] = "unreadable"
    THEN [err |-> "error", template |-> ""]
    ELSE [err |-> "nil", template |-> templates[name]]

\* the text a template wrote: the template it was ("built-in" or "file")
\* and what it spliced in
Output(template, text) == [template |-> template, text |-> text]

\* one render function: load, parse, execute
renderFile(loaded, path, contract) ==
    IF loaded.err # "nil" \/ loaded.template \in {"unparsable", "unexecutable"}
    THEN [err |-> "error", content |-> ""]
    ELSE IF loaded.template = "default"
    THEN [err |-> "nil",
          content |-> Output("built-in", DefaultContent(path, contract))]
    ELSE [err |-> "nil", content |-> Output("file", CustomContent(contract))]

\* the position in Paths of the first file that failed, 0 if none did
FirstFailure(rendered) ==
    IF \E i \in 1..Len(Paths) : rendered[i].err # "nil"
    THEN CHOOSE i \in 1..Len(Paths) :
            /\ rendered[i].err # "nil"
            /\ \A j \in 1..(i - 1) : rendered[j].err = "nil"
    ELSE 0

\* Render partial: returning the files rendered before the first failure
RenderCollectPartial(rendered) ==
    [err      |-> IF \E i \in 1..Len(Paths) : rendered[i].err # "nil"
                  THEN "error" ELSE "nil",
     failedAt |-> FirstFailure(rendered),
     filesNil |-> FALSE,
     files    |-> [path \in {Paths[i] : i \in
                                {k \in 1..Len(Paths) :
                                    \A j \in 1..k : rendered[j].err = "nil"}}
                      |-> rendered[CHOOSE i \in 1..Len(Paths) :
                                       Paths[i] = path].content]]

\* Render once every file is rendered: nil and the error of the first file
\* that failed, else the map of all files
RenderCollect(rendered) ==
    IF \E i \in 1..Len(Paths) : rendered[i].err # "nil"
    THEN [err |-> "error", failedAt |-> FirstFailure(rendered),
          filesNil |-> TRUE, files |-> EmptyMap]
    ELSE [err      |-> "nil",
          failedAt |-> 0,
          filesNil |-> FALSE,
          files    |-> [path \in {Paths[i] : i \in 1..Len(Paths)} |->
                           rendered[CHOOSE i \in 1..Len(Paths) :
                                       Paths[i] = path].content]]

Render(templates, contract) ==
    RenderCollect([i \in 1..Len(Paths) |->
                      renderFile(loadTemplate(templates,
                                              TemplateName(Paths[i])),
                                 Paths[i], contract)])

(***************************************************************************)
(* The validator: Validate on a ContractIR and on its parts.  A finding is *)
(* a ValidationError: its Field and its Message                            *)
(***************************************************************************)
W_Functions == <<"F", "u", "n", "c", "t", "i", "o", "n", "s">>

W_Events == <<"E", "v", "e", "n", "t", "s">>

W_Errors == <<"E", "r", "r", "o", "r", "s">>

W_Types == <<"T", "y", "p", "e", "s">>

W_Inputs == <<"I", "n", "p", "u", "t", "s">>

W_Outputs == <<"O", "u", "t", "p", "u", "t", "s">>

W_Parameters == <<"P", "a", "r", "a", "m", "e", "t", "e", "r", "s">>

W_Fields == <<"F", "i", "e", "l", "d", "s">>

W_Components == <<"C", "o", "m", "p", "o", "n", "e", "n", "t", "s">>

W_Name == <<"N", "a", "m", "e">>

W_Chain == <<"C", "h", "a", "i", "n">>

W_Source == <<"S", "o", "u", "r", "c", "e">>

W_Language == <<"L", "a", "n", "g", "u", "a", "g", "e">>

W_StateMutability == <<"S", "t", "a", "t", "e", "M", "u", "t", "a", "b", "i", "l", "i", "t", "y">>

W_Visibility == <<"V", "i", "s", "i", "b", "i", "l", "i", "t", "y">>

W_Type == <<"T", "y", "p", "e">>

W_BaseType == <<"B", "a", "s", "e", "T", "y", "p", "e">>

W_ArraySize == <<"A", "r", "r", "a", "y", "S", "i", "z", "e">>

W_MapKeyType == <<"M", "a", "p", "K", "e", "y", "T", "y", "p", "e">>

ValidationError(field, message) == [Field |-> field, Message |-> message]

\* err.Field = prefix + "." + err.Field, for every err of errs
Prefixed(prefix, errs) ==
    [i \in 1..Len(errs) |->
        [errs[i] EXCEPT !.Field = prefix \o <<".">> \o @]]

\* fmt.Sprintf("%s[%d]", word, i)
fieldPrefix(word, i) == word \o <<"[">> \o Itoa(i) \o <<"]">>

\* AppendAll ending the loop at the first element that has findings
RECURSIVE AppendAllFirst(_)
AppendAllFirst(lists) ==
    IF lists = <<>> THEN <<>>
    ELSE IF Head(lists) # <<>> THEN Head(lists)
    ELSE AppendAllFirst(Tail(lists))

\* errors = append(errors, ...) over the lists of a loop, in its order
RECURSIVE AppendAll(_)
AppendAll(lists) ==
    IF lists = <<>> THEN <<>> ELSE Head(lists) \o AppendAll(Tail(lists))

\* strings.TrimSpace(s) == ""
Blank(s) == TrimSpace(s) = <<>>

Required(s, field, message) ==
    IF Blank(s) THEN <<ValidationError(field, message)>> ELSE <<>>

RECURSIVE ParameterTypeValidate(_)
RECURSIVE ParameterValidate(_)
\* ParameterValidate requiring a name, as EventParameter.Validate does
ParameterValidateNamed(p) ==
    Required(p.Name, W_Name, <<"parameter name is required">>)
    \o Prefixed(W_Type, ParameterTypeValidate(p.Type))

ParameterValidate(p) == Prefixed(W_Type, ParameterTypeValidate(p.Type))

ParameterTypeValidate(t) ==
    Required(t.BaseType, W_BaseType, <<"base type is required">>)
    \o (IF t.IsArray /\ t.ArraySize < 0
        THEN <<ValidationError(W_ArraySize,
                 <<"array size must be non-negative (0 for dynamic arrays)">>)>>
        ELSE <<>>)
    \o (IF t.IsMap /\ Blank(t.MapKeyType)
        THEN <<ValidationError(W_MapKeyType,
                 <<"map key type is required for maps">>)>>
        ELSE <<>>)
    \o AppendAll([i \in 1..Len(t.Components) |->
                    Prefixed(fieldPrefix(W_Components, i - 1),
                             ParameterValidate(t.Components[i]))])

\* the loop over a list of Parameters under the field word
ParametersValidate(word, params) ==
    AppendAll([i \in 1..Len(params) |->
                  Prefixed(fieldPrefix(word, i - 1),
                           ParameterValidate(params[i]))])

StateMutabilities == {"pure", "view", "nonpayable", "payable"}

validateStateMutability(sm) ==
    IF sm \in StateMutabilities THEN <<>>
    ELSE IF sm = "" THEN <<"state mutability is required">>
    ELSE <<"invalid state mutability: ", sm>>

Visibilities == {"external", "public", "internal", "private"}

validateVisibility(v) ==
    IF v \in Visibilities THEN <<>> ELSE <<"invalid visibility: ", v>>

FunctionValidate(f) ==
    Required(f.Name, W_Name, <<"function name is required">>)
    \o ParametersValidate(W_Inputs, f.Inputs)
    \o ParametersValidate(W_Outputs, f.Outputs)
    \o (IF validateStateMutability(f.StateMutability) # <<>>
        THEN <<ValidationError(W_StateMutability,
                               validateStateMutability(f.StateMutability))>>
        ELSE <<>>)
    \o (IF f.Visibility # "" /\ validateVisibility(f.Visibility) # <<>>
        THEN <<ValidationError(W_Visibility,
                               validateVisibility(f.Visibility))>>
        ELSE <<>>)

EventParameterValidate(p) ==
    Required(p.Name, W_Name, <<"parameter name is required">>)
    \o Prefixed(W_Type, ParameterTypeValidate(p.Type))

EventValidate(e) ==
    Required(e.Name, W_Name, <<"event name is required">>)
    \o AppendAll([i \in 1..Len(e.Parameters) |->
                    Prefixed(fieldPrefix(W_Parameters, i - 1),
                             EventParameterValidate(e.Parameters[i]))])

ContractErrorValidate(e) ==
    Required(e.Name, W_Name, <<"error name is required">>)
    \o ParametersValidate(W_Parameters, e.Parameters)

CustomTypeValidate(t) ==
    Required(t.Name, W_Name, <<"type name is required">>)
    \o ParametersValidate(W_Fields, t.Fields)

SourceInfoValidate(m) ==
    Required(m.Language, W_Language, <<"programming language is required">>)

ContractMetadataValidate(m) ==
    Required(m.Name, W_Name, <<"contract name is required">>)
    \o Required(m.Chain, W_Chain, <<"chain identifier is required">>)
    \o (IF ~m.SourceNil THEN Prefixed(W_Source, SourceInfoValidate(m))
        ELSE <<>>)

Validate(c) ==
    ContractMetadataValidate(c.Metadata)
    \o AppendAll([i \in 1..Len(c.Functions) |->
                    Prefixed(fieldPrefix(W_Functions, i - 1),
                             FunctionValidate(c.Functions[i]))])
    \o AppendAll([i \in 1..Len(c.Events) |->
                    Prefixed(fieldPrefix(W_Events, i - 1),
                             EventValidate(c.Events[i]))])
    \o AppendAll([i \in 1..Len(c.Errors) |->
                    Prefixed(fieldPrefix(W_Errors, i - 1),
                             ContractErrorValidate(c.Errors[i]))])
    \o AppendAll([i \in 1..Len(c.Types) |->
                    Prefixed(fieldPrefix(W_Types, i - 1),
                             CustomTypeValidate(c.Types[i]))])

(***************************************************************************)
(* State                                                                   *)
(***************************************************************************)
VARIABLES
    heap,        \* the ABIParser objects created so far: their functionSignatures
    parseCalls,  \* per pipeline run, the Parse calls it has begun
    pc,          \* per pipeline run, its position
    parser,      \* per run, the ABIParser it holds (an index of heap, 0 = none)
    input,       \* per run, the reader content and metadata of its Parse call
    idx,         \* per run, the entry the loop of Parse is at
    contract,    \* per run, the ContractIR its Parse call is building
    result,      \* per run, what its last Parse call returned
    files,       \* per run, what its Render call returned
    findings,    \* per run, what its Validate call returned
    templateDir, \* per template name, what the template directory holds
    earlier,     \* per run, what its Render call before the last returned
    before,      \* per run, what its Validate call before the last returned
    cli          \* the generate-mcp command: its flags, position and effects

vars == <<heap, parseCalls, pc, parser, input, idx, contract, result, files,
          findings, templateDir, earlier, before, cli>>

\* what the steps of Parse and Validate leave alone of the renderer
rendererVars == <<templateDir, earlier>>

callerVars == <<before, cli>>

Runs == {1, 2}

\* the zero ContractMetadata; Source is a pointer, Language its target's field
ZeroMetadata ==
    [Name |-> <<>>, Chain |-> <<>>, Address |-> "", SourceNil |-> TRUE,
     Language |-> <<>>]

\* the nil *ContractIR
NilContract == NewContract(ZeroMetadata)

NoInput == [wellFormed |-> TRUE, items |-> <<>>, metadata |-> ZeroMetadata]

NoResult == [err |-> "none", irNil |-> TRUE, ir |-> NilContract]

NoFiles == [err |-> "none", failedAt |-> 0, filesNil |-> TRUE, files |-> EmptyMap]

NoFindings == [done |-> FALSE, errors |-> <<>>]

\* no command is running: the packages are called directly
NoCommand ==
    [stage |-> "none", artifact |-> FALSE, chain |-> "", lang |-> "",
     exit |-> "none", diagnostic |-> "", dirs |-> {}, written |-> {}]

Init ==
    /\ heap = <<>>
    /\ parseCalls = [r \in Runs |-> 0]
    /\ pc = [r \in Runs |-> "start"]
    /\ parser = [r \in Runs |-> 0]
    /\ input = [r \in Runs |-> NoInput]
    /\ idx = [r \in Runs |-> 0]
    /\ files = [r \in Runs |-> NoFiles]
    /\ findings = [r \in Runs |-> NoFindings]
    /\ templateDir = NoTemplates
    /\ earlier = [r \in Runs |-> NoFiles]
    /\ before = [r \in Runs |-> NoFindings]
    /\ cli = NoCommand
    /\ contract = [r \in Runs |-> NilContract]
    /\ result = [r \in Runs |-> NoResult]

(***************************************************************************)
(* Operations                                                              *)
(***************************************************************************)
\* a process in which a run has panicked has stopped
Running == \A r \in Runs : pc[r] # "panicked"

\* NewABIParser handing out one object to every caller
NewABIParserShared(h) ==
    IF h = <<>> THEN [heap |-> <<EmptyMap>>, ref |-> 1]
    ELSE [heap |-> h, ref |-> 1]

\* NewABIParser: a new object with its own, empty functionSignatures map
NewABIParser(h) == [heap |-> Append(h, EmptyMap), ref |-> Len(h) + 1]

\* p := parser.NewEVMABIParser()
NewEVMABIParser(r) ==
    /\ Running
    /\ pc[r] = "start"
    /\ heap' = NewABIParser(heap).heap
    /\ parser' = [parser EXCEPT ![r] = NewABIParser(heap).ref]
    /\ pc' = [pc EXCEPT ![r] = "ready"]
    /\ UNCHANGED <<parseCalls, input, idx, contract, result, files, findings,
                   rendererVars,
                   callerVars>>

\* what a Parse call does before its loop, given the reader content in
DecodeEffect(r, in) ==
    /\ parseCalls' = [parseCalls EXCEPT ![r] = @ + 1]
    /\ input' = [input EXCEPT ![r] = in]
    /\ IF in.wellFormed
       THEN /\ pc' = [pc EXCEPT ![r] = "parsing"]
            /\ idx' = [idx EXCEPT ![r] = 1]
            /\ contract' = [contract EXCEPT ![r] = NewContract(in.metadata)]
            /\ result' = [result EXCEPT ![r] = NoResult]
       ELSE /\ pc' = [pc EXCEPT ![r] = "returned"]
            /\ idx' = [idx EXCEPT ![r] = 0]
            /\ contract' = [contract EXCEPT ![r] = NilContract]
            /\ result' = [result EXCEPT ![r] =
                             [err |-> "error", irNil |-> TRUE,
                              ir |-> NilContract]]

\* Parse, up to the loop: decode the reader, create the ContractIR.  The
\* reader holds one of inputs; a parser takes at most maxCalls calls.
ParseDecode(r, inputs, maxCalls) ==
    /\ Running
    /\ pc[r] \in {"ready", "returned"}
    /\ parseCalls[r] < maxCalls
    /\ \E in \in inputs : DecodeEffect(r, in)
    /\ UNCHANGED <<heap, parser, files, findings, rendererVars,
                   callerVars>>

\* the effect of one iteration of the loop on the run and its parser
LoopEffect(r, step) ==
    /\ heap' = [heap EXCEPT ![parser[r]] = step.sigs]
    /\ CASE step.err = "nil" ->
             /\ contract' = [contract EXCEPT ![r] = step.contract]
             /\ idx' = [idx EXCEPT ![r] = @ + 1]
             /\ UNCHANGED <<pc, result>>
         [] step.err = "error" ->
             /\ pc' = [pc EXCEPT ![r] = "returned"]
             /\ result' = [result EXCEPT ![r] =
                              [err |-> "error", irNil |-> TRUE,
                               ir |-> NilContract]]
             /\ UNCHANGED <<contract, idx>>
         [] step.err = "panic" ->
             /\ pc' = [pc EXCEPT ![r] = "panicked"]
             /\ result' = [result EXCEPT ![r] =
                              [err |-> "panic", irNil |-> TRUE,
                               ir |-> NilContract]]
             /\ UNCHANGED <<contract, idx>>

\* Parse, one iteration of "for _, item := range abiItems"
ParseLoop(r) ==
    /\ Running
    /\ pc[r] = "parsing"
    /\ idx[r] <= Len(input[r].items)
    /\ LoopEffect(r, ParseItem(input[r].items[idx[r]], contract[r],
                               heap[parser[r]]))
    /\ UNCHANGED <<parseCalls, parser, input, files, findings, rendererVars,
                   callerVars>>

\* Parse, after the loop: return contract, nil
ParseReturn(r) ==
    /\ Running
    /\ pc[r] = "parsing"
    /\ idx[r] > Len(input[r].items)
    /\ pc' = [pc EXCEPT ![r] = "returned"]
    /\ result' = [result EXCEPT ![r] =
                     [err |-> "nil", irNil |-> FALSE, ir |-> contract[r]]]
    /\ UNCHANGED <<heap, parseCalls, parser, input, idx, contract, files,
                   findings, rendererVars,
                   callerVars>>

\* a renderer that keeps one output buffer for all its callers: a further
\* call returns what the last call of another caller left in it
RenderOnShared(r) ==
    IF files[r].err # "none" /\ \E q \in Runs : q # r /\ files[q].err # "none"
    THEN files[CHOOSE q \in Runs : q # r /\ files[q].err # "none"]
    ELSE Render(templateDir, result[r].ir)

\* renderer.Render(contractIR) of a run: the renderer holds the template
\* directory and nothing else
RenderOn(r) == Render(templateDir, result[r].ir)

\* files, err = r.Render(contractIR), after a Parse call that returned an IR
RenderCall(r) ==
    /\ Running
    /\ pc[r] = "returned"
    /\ result[r].err = "nil"
    /\ files[r].err = "none"
    /\ files' = [files EXCEPT ![r] = RenderOn(r)]
    /\ UNCHANGED <<heap, parseCalls, pc, parser, input, idx, contract, result,
                   findings, rendererVars,
                   callerVars>>

\* a further Render call of the run, on the IR it holds; the caller keeps
\* what the call before returned
RenderAgain(r) ==
    /\ Running
    /\ pc[r] = "returned"
    /\ result[r].err = "nil"
    /\ files[r].err # "none"
    /\ earlier[r].err = "none"
    /\ earlier' = [earlier EXCEPT ![r] = files[r]]
    /\ files' = [files EXCEPT ![r] = RenderOn(r)]
    /\ UNCHANGED <<heap, parseCalls, pc, parser, input, idx, contract, result,
                   findings, templateDir, callerVars>>

\* a Validate that repairs what it finds: it replaces a state mutability
\* that is none of the four by nonpayable
ValidateCallRepairing(r) ==
    /\ Running
    /\ pc[r] = "returned"
    /\ result[r].err = "nil"
    /\ ~findings[r].done
    /\ findings' = [findings EXCEPT ![r] =
                        [done |-> TRUE, errors |-> Validate(result[r].ir)]]
    /\ result' = [result EXCEPT ![r].ir.Functions =
                     [i \in 1..Len(@) |->
                         IF @[i].StateMutability \in StateMutabilities
                         THEN @[i]
                         ELSE [@[i] EXCEPT !.StateMutability = "nonpayable"]]]
    /\ UNCHANGED <<heap, parseCalls, pc, parser, input, idx, contract,
                   files, rendererVars, callerVars>>

\* errors := contractIR.Validate(), on an IR the run holds
ValidateCall(r) ==
    /\ Running
    /\ pc[r] = "returned"
    /\ result[r].err = "nil"
    /\ ~findings[r].done
    /\ findings' = [findings EXCEPT ![r] =
                        [done |-> TRUE, errors |-> Validate(result[r].ir)]]
    /\ UNCHANGED <<heap, parseCalls, pc, parser, input, idx, contract, result,
                   files, rendererVars,
                   callerVars>>

\* a further Validate call of the run on the IR it holds; the caller keeps
\* what the call before returned
ValidateAgain(r) ==
    /\ Running
    /\ pc[r] = "returned"
    /\ result[r].err = "nil"
    /\ findings[r].done
    /\ ~before[r].done
    /\ before' = [before EXCEPT ![r] = findings[r]]
    /\ findings' = [findings EXCEPT ![r] =
                        [done |-> TRUE, errors |-> Validate(result[r].ir)]]
    /\ UNCHANGED <<heap, parseCalls, pc, parser, input, idx, contract, result,
                   files, rendererVars, cli>>

(***************************************************************************)
(* Inputs                                                                  *)
(***************************************************************************)
Param(name, type) ==
    [Name |-> name, Type |-> type, Components |-> <<>>,
     ComponentsNil |-> TRUE, Indexed |-> FALSE]

Entry(type, name, inputs, outputs, mutability, constant, payable) ==
    [Type |-> type, Name |-> name, Inputs |-> inputs, Outputs |-> outputs,
     StateMutability |-> mutability, Anonymous |-> FALSE,
     Constant |-> constant, Payable |-> payable]

\* all sequences of at most n elements of S
SeqsUpTo(S, n) == UNION {[1..k -> S] : k \in 0..n}

T_u == <<"u">>

T_fixed == <<"u", "[", "3", "]">>

T_badSize == <<"u", "[", "x", "]">>

T_reversed == <<"u", "]", "[">>

N_f == <<"f">>

N_f1 == <<"f", "_", "1">>

N_g == <<"g">>

N_E == <<"E">>

N_x == <<"x">>

Token == [ZeroMetadata EXCEPT !.Name = <<"M", "y", " ", "T">>]

\* the entries the pipeline runs are given
Entries ==
    { Entry("function", N_f, <<>>, <<>>, "view", FALSE, FALSE),
      Entry("function", N_f, <<Param(N_x, T_u)>>, <<>>, "", TRUE, TRUE),
      Entry("function", N_f, <<Param(N_x, T_fixed)>>, <<Param(<<>>, T_u)>>,
            "", FALSE, TRUE),
      Entry("function", N_f1, <<>>, <<>>, "", FALSE, FALSE),
      Entry("function", S_constructor, <<>>, <<>>, "bogus", FALSE, FALSE),
      Entry("function", N_g, <<Param(N_x, T_badSize)>>, <<>>, "view",
            FALSE, FALSE),
      Entry("function", N_g, <<>>, <<Param(N_x, T_reversed)>>, "view",
            FALSE, FALSE),
      [Entry("event", N_E, <<Param(N_x, T_u)>>, <<>>, "", FALSE, FALSE)
          EXCEPT !.Inputs[1].Indexed = TRUE],
      Entry("error", N_E, <<Param(N_x, T_u)>>, <<>>, "", FALSE, FALSE),
      [Entry("event", N_g, <<Param(N_x, T_u), Param(N_f, T_u)>>, <<>>, "",
             FALSE, FALSE)
          EXCEPT !.Inputs[2].Indexed = TRUE],
      Entry("error", N_g, <<>>, <<>>, "", FALSE, FALSE),
      Entry("constructor", <<>>, <<Param(N_x, T_u)>>, <<>>, "", TRUE, TRUE),
      Entry("fallback", <<>>, <<>>, <<>>, "", FALSE, FALSE),
      Entry("receive", <<>>, <<Param(N_x, T_badSize)>>, <<>>, "nonpayable",
            TRUE, FALSE),
      Entry("", N_f, <<Param(N_x, T_badSize)>>, <<>>, "view", FALSE, FALSE),
      Entry("Function", N_f, <<Param(N_x, T_reversed)>>, <<>>, "", FALSE,
            FALSE) }

\* a reader that holds a well-formed JSON array of the entries items
Artifact(items) == [wellFormed |-> TRUE, items |-> items, metadata |-> Token]

\* a reader that does not hold a JSON array
Malformed == [wellFormed |-> FALSE, items |-> <<>>, metadata |-> Token]

Artifacts == {Artifact(items) : items \in SeqsUpTo(Entries, MaxItems)}
             \cup {Malformed}

(***************************************************************************)
(* One pipeline run, as the command line makes it: a new parser, one Parse *)
(***************************************************************************)
Next ==
    \/ NewEVMABIParser(1)
    \/ ParseDecode(1, Artifacts, 1)
    \/ ParseLoop(1)
    \/ ParseReturn(1)
    \/ RenderCall(1)

Spec == Init /\ [][Next]_vars

(***************************************************************************)
(* Properties of one Parse call on a new parser (Spec)                     *)
(***************************************************************************)
FunctionKinds == {"function", "constructor", "fallback", "receive"}

RecognizedKinds == FunctionKinds \cup {"event", "error"}

\* the position in IR.Functions of the Function made from entry i
FnIndex(items, i) ==
    Cardinality({j \in 1..i : items[j].Type \in FunctionKinds})

\* the number of 'function' entries before entry i that declare its name
Repeat(items, i) ==
    Cardinality({j \in 1..(i - 1) : /\ items[j].Type = "function"
                                    /\ items[j].Name = items[i].Name})

Overloaded(items, i) ==
    /\ items[i].Type = "function"
    /\ \E j \in 1..Len(items) : /\ j # i
                                /\ items[j].Type = "function"
                                /\ items[j].Name = items[i].Name

ParsedOK(r) == pc[r] = "returned" /\ result[r].err = "nil"

Distinct(seq) ==
    \A i, j \in 1..Len(seq) : i # j => seq[i].Name # seq[j].Name

\* C1: on a new parser, the first of the function entries that share a
\* declared name keeps the name, the i-th repeat is named <declared>_<i>, and
\* each renamed Function records the declared name and its signature.
C1_OverloadNaming ==
    ParsedOK(1) =>
        \A i \in 1..Len(input[1].items) :
            Overloaded(input[1].items, i) =>
                LET item == input[1].items[i]
                    fn   == result[1].ir.Functions[FnIndex(input[1].items, i)]
                    k    == Repeat(input[1].items, i)
                IN  IF k = 0 THEN fn.Name = item.Name
                    ELSE /\ fn.Name = item.Name \o <<"_">> \o Itoa(k)
                         /\ {"originalName", "originalSignature"}
                                \subseteq DOMAIN fn.ChainData
                         /\ fn.ChainData["originalName"] = item.Name
                         /\ fn.ChainData["originalSignature"]
                                = item.Name \o <<"(">>
                                  \o Join(InputTypes(item.Inputs), <<",">>)
                                  \o <<")">>

\* a name declared three times: the third Function is the second repeat
C1_Witness ==
    /\ ParsedOK(1)
    /\ Len(input[1].items) = 3
    /\ \A i \in 1..3 : /\ input[1].items[i].Type = "function"
                       /\ input[1].items[i].Name = N_f
    /\ result[1].ir.Functions[3].Name = <<"f", "_", "2">>
    /\ result[1].ir.Functions[2].ChainData["originalName"] = N_f

\* C2: the Function names of a returned IR are pairwise distinct, and so are
\* its Event names.
C2_UniqueNames ==
    ParsedOK(1) => /\ Distinct(result[1].ir.Functions)
                   /\ Distinct(result[1].ir.Events)

\* C7: a 'function' entry keeps its declared stateMutability; without one it
\* is view if constant, else payable if payable, else nonpayable; its
\* visibility is public.
C7_FunctionMutability ==
    ParsedOK(1) =>
        \A i \in 1..Len(input[1].items) :
            input[1].items[i].Type = "function" =>
                LET item == input[1].items[i]
                    fn   == result[1].ir.Functions[FnIndex(input[1].items, i)]
                IN  /\ fn.Visibility = "public"
                    /\ item.StateMutability # ""
                          => fn.StateMutability = item.StateMutability
                    /\ item.StateMutability = "" /\ item.Constant
                          => fn.StateMutability = "view"
                    /\ item.StateMutability = "" /\ ~item.Constant
                       /\ item.Payable
                          => fn.StateMutability = "payable"
                    /\ item.StateMutability = "" /\ ~item.Constant
                       /\ ~item.Payable
                          => fn.StateMutability = "nonpayable"

\* a function without stateMutability, constant and payable both set: view
C7_Witness ==
    /\ ParsedOK(1)
    /\ \E i \in 1..Len(input[1].items) :
          /\ input[1].items[i].Type = "function"
          /\ input[1].items[i].StateMutability = ""
          /\ input[1].items[i].Constant
          /\ input[1].items[i].Payable
          /\ result[1].ir.Functions[FnIndex(input[1].items, i)]
                .StateMutability = "view"

\* C8: a 'receive' entry yields the Function receive: IsReceive, no inputs,
\* no outputs, payable, whatever the entry declares.
C8_Receive ==
    ParsedOK(1) =>
        \A i \in 1..Len(input[1].items) :
            input[1].items[i].Type = "receive" =>
                LET fn == result[1].ir.Functions[FnIndex(input[1].items, i)]
                IN  /\ fn.Name = S_receive
                    /\ fn.IsReceive
                    /\ fn.Inputs = <<>>
                    /\ fn.Outputs = <<>>
                    /\ fn.StateMutability = "payable"

\* a receive entry that declares nonpayable and an input of malformed type
C8_Witness ==
    /\ ParsedOK(1)
    /\ \E i \in 1..Len(input[1].items) :
          /\ input[1].items[i].Type = "receive"
          /\ input[1].items[i].StateMutability = "nonpayable"
          /\ input[1].items[i].Inputs # <<>>
          /\ result[1].ir.Functions[FnIndex(input[1].items, i)].IsReceive

\* what Parse returns when its loop ends as p
Returned(p) ==
    [err   |-> p.err,
     irNil |-> p.err # "nil",
     ir    |-> IF p.err = "nil" THEN p.contract ELSE NilContract]

\* what Parse returns for the entries items on a parser whose map is sigs
Outcome(items, metadata, sigs) == Returned(ParseAll(items, metadata, sigs))

RECURSIVE Recognized(_)
Recognized(items) ==
    IF items = <<>> THEN <<>>
    ELSE (IF Head(items).Type \in RecognizedKinds THEN <<Head(items)>>
          ELSE <<>>) \o Recognized(Tail(items))

\* C9: entries of an unrecognized kind do not fail the call and contribute
\* nothing: Parse ends as it ends for the artifact without them.
C9_UnknownKindsSkipped ==
    (pc[1] \in {"returned", "panicked"} /\ input[1].wellFormed) =>
        result[1] = Outcome(Recognized(input[1].items), input[1].metadata,
                            EmptyMap)

\* an unrecognized entry with a malformed type between two overloads
C9_Witness ==
    /\ ParsedOK(1)
    /\ Len(input[1].items) = 3
    /\ input[1].items[1].Type = "function"
    /\ input[1].items[2].Type \notin RecognizedKinds
    /\ input[1].items[2].Inputs[1].Type = T_badSize
    /\ input[1].items[3].Type = "function"
    /\ Len(result[1].ir.Functions) = 2
    /\ result[1].ir.Functions[2].Name = N_f1

\* C10: a Parse call ends with an IR and no error, or with an error and no
\* IR; it never panics.
C10_ParseOutcome ==
    \A r \in Runs :
        /\ pc[r] # "panicked"
        /\ pc[r] = "returned" =>
              \/ result[r].err = "nil" /\ ~result[r].irNil
              \/ result[r].err = "error" /\ result[r].irNil

(***************************************************************************)
(* Type resolution: Parse on artifacts of one function entry with one      *)
(* input, over all short type strings and some component lists (SpecType)  *)
(***************************************************************************)
TypeAlphabet == {"u", "[", "]", "3", "x"}

T_tupleDyn == S_tuple \o S_dyn

T_tupleFixed == S_tuple \o <<"[", "3", "]">>

T_tupleFixedDyn == S_tuple \o <<"[", "3", "]", "[", "]">>

T_twoDims == <<"u", "[", "2", "]", "[", "3", "]">>

T_negative == <<"u", "[", "-", "1", "]">>

T_dynFixed == <<"u", "[", "]", "[", "3", "]">>

T_zero == <<"u", "[", "0", "]">>

T_tupleZero == S_tuple \o <<"[", "0", "]">>

\* "mapping(x => u)"
T_mapping == S_mapping \o <<"x", " ">> \o S_arrow \o <<" ", "u", ")">>

\* "mapping( x=>u )"
T_mappingSpaces == S_mapping \o <<" ", "x">> \o S_arrow \o <<"u", " ", ")">>

\* "mapping(x)"
T_mappingNoArrow == S_mapping \o <<"x", ")">>

\* "mapping(=>"
T_mappingCut == S_mapping \o S_arrow

\* "mapping(x => u)[]"
T_mappingDyn == T_mapping \o S_dyn

TypeStrings ==
    SeqsUpTo(TypeAlphabet, MaxTypeLen)
    \cup {S_tuple, T_tupleDyn, T_tupleFixed, T_tupleFixedDyn, T_twoDims,
          T_negative, T_dynFixed, T_zero, T_tupleZero, T_mapping,
          T_mappingSpaces, T_mappingNoArrow, T_mappingCut, T_mappingDyn}

N_name == <<"n", "a", "m", "e">>

N_age == <<"a", "g", "e">>

T_string == <<"s", "t", "r", "i", "n", "g">>

Tuple(name, type, components) ==
    [Name |-> name, Type |-> type, Components |-> components,
     ComponentsNil |-> FALSE, Indexed |-> FALSE]

\* component lists: absent is ComponentsNil, the others are supplied
ComponentLists ==
    { <<>>,
      <<Param(N_name, T_string), Param(N_age, T_u)>>,
      <<Param(N_x, T_fixed), Param(N_age, S_dyn)>>,
      <<Tuple(N_name, S_tuple, <<Param(N_x, T_u), Param(N_age, T_fixed)>>),
        Tuple(N_age, T_tupleDyn, <<Param(N_x, T_string)>>),
        Param(N_x, T_u)>>,
      <<Param(N_name, T_u), Param(N_x, T_badSize)>> }

TypedInputs ==
    {Param(N_x, t) : t \in TypeStrings}
    \cup {Tuple(N_x, t, c) : t \in TypeStrings, c \in ComponentLists}

TypeArtifacts ==
    {Artifact(<<Entry("function", N_f, <<in>>, <<>>, "view", FALSE, FALSE)>>) :
        in \in TypedInputs}

NextType ==
    \/ NewEVMABIParser(1)
    \/ ParseDecode(1, TypeArtifacts, 1)
    \/ ParseLoop(1)
    \/ ParseReturn(1)

SpecType == Init /\ [][NextType]_vars

\* the input whose type the run resolves, and the type Parse returned for it
Declared == input[1].items[1].Inputs[1]

Resolved == result[1].ir.Functions[1].Inputs[1].Type

Resolving == pc[1] \in {"returned", "panicked"} /\ input[1].items # <<>>

Brackets == {"[", "]"}

NoBrackets(s) == \A i \in 1..Len(s) : s[i] \notin Brackets

\* the position of the last "[" of s (1-based), 0 if there is none
LastOpen(s) ==
    IF \E i \in 1..Len(s) : s[i] = "["
    THEN CHOOSE i \in 1..Len(s) :
            s[i] = "[" /\ \A j \in (i + 1)..Len(s) : s[j] # "["
    ELSE 0

\* s ends in a bracket pair "[tok]" whose token holds no bracket
HasSizeSuffix(s) ==
    /\ s # <<>>
    /\ s[Len(s)] = "]"
    /\ LastOpen(s) # 0
    /\ NoBrackets(SubSeq(s, LastOpen(s) + 1, Len(s) - 1))

SizeToken(s) == SubSeq(s, LastOpen(s) + 1, Len(s) - 1)

BeforeSuffix(s) == SubSeq(s, 1, LastOpen(s) - 1)

\* s is an element type followed by bracket pairs
RECURSIVE ArraySyntax(_)
ArraySyntax(s) ==
    \/ NoBrackets(s)
    \/ HasSizeSuffix(s) /\ ArraySyntax(BeforeSuffix(s))

Numeric(tok) == tok # <<>> /\ \A i \in 1..Len(tok) : IsDigit(tok[i])

\* C5: a type string ending in "[]" resolves to a dynamic array of the
\* string without the suffix; one ending in "[N]", N numeric, to an array of
\* size N of the string without the suffix; one whose size token is not
\* numeric is rejected with an error; one without brackets resolves to
\* itself, not an array.  (Stated for inputs without a component list.)
C5_TypeResolution ==
    (Resolving /\ Declared.ComponentsNil /\ ArraySyntax(Declared.Type)) =>
        LET t == Declared.Type
        IN  /\ NoBrackets(t) =>
                /\ result[1].err = "nil"
                /\ ~Resolved.IsArray
                /\ Resolved.BaseType = t
            /\ (HasSizeSuffix(t) /\ SizeToken(t) = <<>>) =>
                /\ result[1].err = "nil"
                /\ Resolved.IsArray
                /\ Resolved.ArraySize = 0
                /\ Resolved.BaseType = BeforeSuffix(t)
            /\ (HasSizeSuffix(t) /\ Numeric(SizeToken(t))) =>
                /\ result[1].err = "nil"
                /\ Resolved.IsArray
                /\ Resolved.ArraySize = DigitsValue(SizeToken(t))
                /\ Resolved.BaseType = BeforeSuffix(t)
            /\ (HasSizeSuffix(t) /\ SizeToken(t) # <<>>
                /\ ~Numeric(SizeToken(t))
                /\ ~Atoi(SizeToken(t)).ok) =>
                result[1].err = "error"

\* the resolved parameters carry the declared names and types, in order
RECURSIVE MatchComponents(_, _)
MatchComponents(resolved, declared) ==
    /\ Len(resolved) = Len(declared)
    /\ \A i \in 1..Len(declared) :
          /\ resolved[i].Name = declared[i].Name
          /\ declared[i].Type
                = resolved[i].Type.BaseType
                  \o (IF resolved[i].Type.IsArray
                      THEN ArraySuffix(resolved[i].Type) ELSE <<>>)
          /\ IF resolved[i].Type.BaseType = S_tuple
                /\ ~declared[i].ComponentsNil
             THEN MatchComponents(resolved[i].Type.Components,
                                  declared[i].Components)
             ELSE resolved[i].Type.Components = <<>>

C6_WitnessOther ==
    /\ Resolving
    /\ result[1].err = "nil"
    /\ Declared.Type = T_fixed
    /\ Len(Declared.Components) = 2
    /\ Resolved.Components = <<>>

(***************************************************************************)
(* One parser used for several Parse calls (SpecReuse)                     *)
(***************************************************************************)
MaxCalls == 2

MaxReuseItems == 2

ReuseEntries ==
    { Entry("function", N_f, <<>>, <<>>, "view", FALSE, FALSE),
      Entry("function", N_f, <<Param(N_x, T_u)>>, <<>>, "", FALSE, FALSE),
      Entry("function", N_g, <<Param(N_x, T_badSize)>>, <<>>, "", FALSE,
            FALSE),
      Entry("event", N_E, <<>>, <<>>, "", FALSE, FALSE) }

ReuseArtifacts ==
    {Artifact(items) : items \in SeqsUpTo(ReuseEntries, MaxReuseItems)}
    \cup {Malformed}

NextReuse ==
    \/ NewEVMABIParser(1)
    \/ ParseDecode(1, ReuseArtifacts, MaxCalls)
    \/ ParseLoop(1)
    \/ ParseReturn(1)

SpecReuse == Init /\ [][NextReuse]_vars

\* C3: whatever Parse calls the parser served before, a Parse call returns
\* what a new parser returns for the same artifact.
C3_CounterPerCall ==
    (pc[1] = "returned" /\ input[1].wellFormed) =>
        result[1] = Outcome(input[1].items, input[1].metadata, EmptyMap)

(***************************************************************************)
(* Two pipeline runs in one process, their steps interleaved (SpecConc)    *)
(***************************************************************************)
MaxConcItems == 2

ConcArtifacts ==
    {Artifact(items) : items \in SeqsUpTo(ReuseEntries, MaxConcItems)}
    \cup {Malformed}

NextConc ==
    \E r \in Runs :
        \/ NewEVMABIParser(r)
        \/ ParseDecode(r, ConcArtifacts, 1)
        \/ ParseLoop(r)
        \/ ParseReturn(r)
        \/ RenderCall(r)

SpecConc == Init /\ [][NextConc]_vars

\* C4: with a parser and a Render call of its own, a run returns the IR a
\* new parser returns for its artifact and the files Render returns for that
\* IR, whatever the other run does in between; the runs hold different
\* parsers.
C4_RunsIsolated ==
    /\ \A r \in Runs :
          (pc[r] = "returned" /\ input[r].wellFormed) =>
              /\ result[r] = Outcome(input[r].items, input[r].metadata,
                                     EmptyMap)
              /\ files[r].err # "none" =>
                    files[r] = Render(templateDir, result[r].ir)
    /\ \A r1, r2 \in Runs :
          (r1 # r2 /\ parser[r1] # 0) => parser[r1] # parser[r2]

\* both runs parsed an artifact declaring f and rendered it
C4_Witness ==
    \A r \in Runs :
        /\ pc[r] = "returned"
        /\ result[r].err = "nil"
        /\ files[r].err = "nil"
        /\ Len(input[r].items) = 2
        /\ input[r].items[1].Name = N_f
        /\ input[r].items[2].Name = N_f
        /\ result[r].ir.Functions[2].Name = N_f1
        /\ DOMAIN files[r].files
              = {"package.json", "tsconfig.json", "src/server.ts",
                 "README.md", "inspector-e2e/e2e-tests.spec.ts",
                 "playwright.config.ts"}

\* some bracket pair of s holds a size token that is no number
RECURSIVE HasMalformedSize(_)
HasMalformedSize(s) ==
    /\ HasSizeSuffix(s)
    /\ \/ SizeToken(s) # <<>> /\ ~Atoi(SizeToken(s)).ok
       \/ HasMalformedSize(BeforeSuffix(s))

\* C11: Parse fails exactly when a resolved type string holds a size token
\* that is no number; every string whose sizes are numbers is accepted, in
\* several dimensions too.  (Stated for inputs without a component list.)
C11_FailsOnlyOnMalformedSize ==
    (Resolving /\ Declared.ComponentsNil /\ ArraySyntax(Declared.Type)) =>
        (result[1].err = "nil" <=> ~HasMalformedSize(Declared.Type))

(***************************************************************************)
(* Validate on ContractIRs built by the caller (SpecValidate)              *)
(***************************************************************************)
MaxIRFunctions == 3

V_type == [ZeroParameterType EXCEPT !.BaseType = T_u]

V_blankBase == [ZeroParameterType EXCEPT !.BaseType = <<" ">>]

V_negative == [V_type EXCEPT !.IsArray = TRUE, !.ArraySize = -1]

V_negativeNoArray == [V_type EXCEPT !.ArraySize = -1]

V_noKey == [V_type EXCEPT !.IsMap = TRUE]

V_allWrong ==
    [ZeroParameterType EXCEPT !.IsArray = TRUE, !.ArraySize = -1,
                              !.IsMap = TRUE, !.MapKeyType = <<" ">>]

VParam(name, type) == [Name |-> name, Type |-> type]

V_nested ==
    [ZeroParameterType EXCEPT
        !.BaseType = S_tuple,
        !.Components =
            <<VParam(<<>>, V_blankBase),
              VParam(N_x, [ZeroParameterType EXCEPT
                              !.BaseType = S_tuple,
                              !.Components = <<VParam(N_age, V_negative)>>])>>]

VFunction(name, inputs, outputs, mutability, visibility) ==
    [ZeroFunction EXCEPT !.Name = name, !.Inputs = inputs,
                         !.Outputs = outputs,
                         !.StateMutability = mutability,
                         !.Visibility = visibility]

V_emptyNameInvalid == VFunction(<<>>, <<>>, <<>>, "invalid", "")

V_emptyBaseInput ==
    VFunction(N_f, <<VParam(N_x, ZeroParameterType)>>, <<>>, "view", "")

V_unnamedInput ==
    VFunction(N_g, <<VParam(<<>>, V_type), VParam(N_x, V_negativeNoArray)>>,
              <<>>, "payable", "external")

VFunctions ==
    { VFunction(N_f, <<>>, <<>>, "view", "public"),
      V_emptyNameInvalid,
      VFunction(<<" ">>, <<>>, <<>>, "", "bogus"),
      V_emptyBaseInput,
      VFunction(N_g, <<VParam(N_x, V_type), VParam(N_age, V_allWrong)>>,
                <<VParam(N_x, V_nested)>>, "pure", ""),
      V_unnamedInput }

VEventParam(name, type) == [Name |-> name, Type |-> type, Indexed |-> FALSE]

V_event ==
    [ZeroEvent EXCEPT !.Name = N_E,
                      !.Parameters = <<VEventParam(N_x, V_negativeNoArray)>>]

VEvents ==
    { <<>>,
      <<V_event>>,
      << V_event,
         [ZeroEvent EXCEPT !.Parameters = <<VEventParam(<<>>, V_noKey)>>] >> }

V_error ==
    [ZeroContractError EXCEPT !.Name = N_E,
                              !.Parameters = <<VParam(<<>>, V_type)>>,
                              !.ParametersNil = FALSE]

VErrors ==
    { <<>>,
      <<V_error>>,
      << V_error,
         [ZeroContractError EXCEPT
             !.Name = <<" ">>,
             !.Parameters = <<VParam(N_x, V_blankBase)>>,
             !.ParametersNil = FALSE] >> }

V_customType ==
    [Name |-> N_name, Description |-> <<>>,
     Fields |-> <<VParam(<<>>, V_type)>>]

VTypes ==
    { <<>>,
      <<V_customType>>,
      << V_customType,
         [Name |-> <<>>, Description |-> <<>>,
          Fields |-> <<VParam(N_x, V_negative)>>] >> }

VMetadata(name, chain, sourceNil, language) ==
    [ZeroMetadata EXCEPT !.Name = name, !.Chain = chain,
                         !.SourceNil = sourceNil, !.Language = language]

VMetadatas ==
    { VMetadata(N_name, S_ethereum, TRUE, <<>>),
      ZeroMetadata,
      VMetadata(N_name, <<" ">>, FALSE, <<>>),
      VMetadata(<<" ">>, S_ethereum, FALSE, T_string),
      VMetadata(N_name, S_ethereum, FALSE, T_string) }

ContractIRs ==
    [Metadata  : VMetadatas,
     Functions : SeqsUpTo(VFunctions, MaxIRFunctions),
     Events    : VEvents,
     Errors    : VErrors,
     ErrorsNil : {FALSE},
     Types     : VTypes,
     TypesNil  : {FALSE}]

\* a caller that holds a ContractIR it built itself
InitValidate ==
    /\ heap = <<>>
    /\ parseCalls = [r \in Runs |-> 0]
    /\ pc = [r \in Runs |-> IF r = 1 THEN "returned" ELSE "start"]
    /\ parser = [r \in Runs |-> 0]
    /\ input = [r \in Runs |-> NoInput]
    /\ idx = [r \in Runs |-> 0]
    /\ contract = [r \in Runs |-> NilContract]
    /\ \E c \in ContractIRs :
          result = [r \in Runs |->
                       IF r = 1
                       THEN [err |-> "nil", irNil |-> FALSE, ir |-> c]
                       ELSE NoResult]
    /\ files = [r \in Runs |-> NoFiles]
    /\ findings = [r \in Runs |-> NoFindings]
    /\ templateDir = NoTemplates
    /\ earlier = [r \in Runs |-> NoFiles]
    /\ before = [r \in Runs |-> NoFindings]
    /\ cli = NoCommand

NextValidate == ValidateCall(1)

SpecValidate == InitValidate /\ [][NextValidate]_vars

Validated == findings[1].done

TheIR == result[1].ir

AllSpace(s) == \A i \in 1..Len(s) : s[i] \in Whitespace

B(violated) == IF violated THEN 1 ELSE 0

RECURSIVE SumSeq(_)
SumSeq(ns) == IF ns = <<>> THEN 0 ELSE Head(ns) + SumSeq(Tail(ns))

RECURSIVE TypeViolations(_)
TypeViolations(t) ==
    B(AllSpace(t.BaseType))
    + B(t.IsArray /\ t.ArraySize < 0)
    + B(t.IsMap /\ AllSpace(t.MapKeyType))
    + SumSeq([i \in 1..Len(t.Components) |->
                 TypeViolations(t.Components[i].Type)])

ParamViolations(params) ==
    SumSeq([i \in 1..Len(params) |-> TypeViolations(params[i].Type)])

FunctionViolations(f) ==
    B(AllSpace(f.Name))
    + ParamViolations(f.Inputs) + ParamViolations(f.Outputs)
    + B(f.StateMutability \notin {"pure", "view", "nonpayable", "payable"})
    + B(f.Visibility
           \notin {"", "external", "public", "internal", "private"})

EventViolations(e) ==
    B(AllSpace(e.Name))
    + SumSeq([i \in 1..Len(e.Parameters) |->
                 B(AllSpace(e.Parameters[i].Name))
                 + TypeViolations(e.Parameters[i].Type)])

\* the rules an IR violates, over the whole graph
Violations(c) ==
    B(AllSpace(c.Metadata.Name)) + B(AllSpace(c.Metadata.Chain))
    + B(~c.Metadata.SourceNil /\ AllSpace(c.Metadata.Language))
    + SumSeq([i \in 1..Len(c.Functions) |->
                 FunctionViolations(c.Functions[i])])
    + SumSeq([i \in 1..Len(c.Events) |-> EventViolations(c.Events[i])])
    + SumSeq([i \in 1..Len(c.Errors) |->
                 B(AllSpace(c.Errors[i].Name))
                 + ParamViolations(c.Errors[i].Parameters)])
    + SumSeq([i \in 1..Len(c.Types) |->
                 B(AllSpace(c.Types[i].Name))
                 + ParamViolations(c.Types[i].Fields)])

DistinctFields(errors) ==
    \A i, j \in 1..Len(errors) : i # j => errors[i].Field # errors[j].Field

\* C12: Validate returns one finding for each rule the IR violates, over the
\* whole graph: it never stops at the first.
C12_OneFindingPerViolation ==
    Validated => Len(findings[1].errors) = Violations(TheIR)

\* no contract name, no chain, one function without name and with an invalid
\* state mutability: four findings with four distinct field paths
C12_Witness ==
    /\ Validated
    /\ TheIR.Metadata = ZeroMetadata
    /\ TheIR.Functions = <<V_emptyNameInvalid>>
    /\ TheIR.Events = <<>> /\ TheIR.Errors = <<>> /\ TheIR.Types = <<>>
    /\ Len(findings[1].errors) = 4
    /\ DistinctFields(findings[1].errors)

IsEmpty(s) == s = <<>>

RECURSIVE TypeSoundAsStated(_)
TypeSoundAsStated(t) ==
    /\ ~IsEmpty(t.BaseType)
    /\ t.IsArray => t.ArraySize >= 0
    /\ t.IsMap => ~IsEmpty(t.MapKeyType)
    /\ \A i \in 1..Len(t.Components) : TypeSoundAsStated(t.Components[i].Type)

ParamsSoundAsStated(params) ==
    \A i \in 1..Len(params) : TypeSoundAsStated(params[i].Type)

\* the conditions of soundness, a name or type being missing when it is empty
SoundAsStated(c) ==
    /\ ~IsEmpty(c.Metadata.Name)
    /\ ~IsEmpty(c.Metadata.Chain)
    /\ ~c.Metadata.SourceNil => ~IsEmpty(c.Metadata.Language)
    /\ \A i \in 1..Len(c.Functions) :
          /\ ~IsEmpty(c.Functions[i].Name)
          /\ c.Functions[i].StateMutability
                \in {"pure", "view", "nonpayable", "payable"}
          /\ c.Functions[i].Visibility
                \in {"", "external", "public", "internal", "private"}
          /\ ParamsSoundAsStated(c.Functions[i].Inputs)
          /\ ParamsSoundAsStated(c.Functions[i].Outputs)
    /\ \A i \in 1..Len(c.Events) :
          /\ ~IsEmpty(c.Events[i].Name)
          /\ \A j \in 1..Len(c.Events[i].Parameters) :
                /\ ~IsEmpty(c.Events[i].Parameters[j].Name)
                /\ TypeSoundAsStated(c.Events[i].Parameters[j].Type)
    /\ \A i \in 1..Len(c.Errors) :
          /\ ~IsEmpty(c.Errors[i].Name)
          /\ ParamsSoundAsStated(c.Errors[i].Parameters)
    /\ \A i \in 1..Len(c.Types) :
          /\ ~IsEmpty(c.Types[i].Name)
          /\ ParamsSoundAsStated(c.Types[i].Fields)

RECURSIVE TypeSound(_)
TypeSound(t) ==
    /\ ~AllSpace(t.BaseType)
    /\ t.IsArray => t.ArraySize >= 0
    /\ t.IsMap => ~AllSpace(t.MapKeyType)
    /\ \A i \in 1..Len(t.Components) : TypeSound(t.Components[i].Type)

ParamsSound(params) ==
    \A i \in 1..Len(params) : TypeSound(params[i].Type)

\* the same conditions, a name or type being missing when it is empty or
\* holds white space only
Sound(c) ==
    /\ ~AllSpace(c.Metadata.Name)
    /\ ~AllSpace(c.Metadata.Chain)
    /\ ~c.Metadata.SourceNil => ~AllSpace(c.Metadata.Language)
    /\ \A i \in 1..Len(c.Functions) :
          /\ ~AllSpace(c.Functions[i].Name)
          /\ c.Functions[i].StateMutability
                \in {"pure", "view", "nonpayable", "payable"}
          /\ c.Functions[i].Visibility
                \in {"", "external", "public", "internal", "private"}
          /\ ParamsSound(c.Functions[i].Inputs)
          /\ ParamsSound(c.Functions[i].Outputs)
    /\ \A i \in 1..Len(c.Events) :
          /\ ~AllSpace(c.Events[i].Name)
          /\ \A j \in 1..Len(c.Events[i].Parameters) :
                /\ ~AllSpace(c.Events[i].Parameters[j].Name)
                /\ TypeSound(c.Events[i].Parameters[j].Type)
    /\ \A i \in 1..Len(c.Errors) :
          /\ ~AllSpace(c.Errors[i].Name)
          /\ ParamsSound(c.Errors[i].Parameters)
    /\ \A i \in 1..Len(c.Types) :
          /\ ~AllSpace(c.Types[i].Name)
          /\ ParamsSound(c.Types[i].Fields)

\* C13: Validate returns no findings exactly when the metadata, every
\* function, event, error, custom type and every reachable ParameterType
\* meet the conditions, every required string being non-empty.
C13_NoFindingsIffSound ==
    Validated => (findings[1].errors = <<>> <=> SoundAsStated(TheIR))

\* C13, amended: the same, a required string counting as missing also when
\* it holds white space only.
C13_NoFindingsIffSoundTrimmed ==
    Validated => (findings[1].errors = <<>> <=> Sound(TheIR))

\* a sound IR with unnamed function, error and custom-type parameters and a
\* negative arraySize on types that are no arrays
C13_Witness ==
    /\ Validated
    /\ findings[1].errors = <<>>
    /\ Len(TheIR.Functions) = 2
    /\ TheIR.Functions[2] = V_unnamedInput
    /\ TheIR.Events = <<V_event>>
    /\ TheIR.Errors = <<V_error>>
    /\ TheIR.Types = <<V_customType>>
    /\ ~TheIR.Metadata.SourceNil

W_Metadata == <<"M", "e", "t", "a", "d", "a", "t", "a">>

P_example == <<"F", "u", "n", "c", "t", "i", "o", "n", "s", "[", "2", "]", ".", "I", "n", "p", "u", "t", "s", "[", "0", "]", ".", "T", "y", "p", "e", ".", "B", "a", "s", "e", "T", "y", "p", "e">>

\* the rank of the part of the IR a path starts in, 0 when it starts in none
Section(field) ==
    IF HasPrefix(field, W_Metadata \o <<".">>) THEN 1
    ELSE IF HasPrefix(field, W_Functions \o <<"[">>) THEN 2
    ELSE IF HasPrefix(field, W_Events \o <<"[">>) THEN 3
    ELSE IF HasPrefix(field, W_Errors \o <<"[">>) THEN 4
    ELSE IF HasPrefix(field, W_Types \o <<"[">>) THEN 5
    ELSE 0

\* the index a path that starts in a collection carries first
ElementIndex(field) ==
    Atoi(Slice(field, Index(field, <<"[">>) + 1, Index(field, <<"]">>))).val

InOrder(errors) ==
    \A i, j \in 1..Len(errors) :
        (i < j) =>
            \/ Section(errors[i].Field) < Section(errors[j].Field)
            \/ /\ Section(errors[i].Field) = Section(errors[j].Field)
               /\ Section(errors[i].Field) > 1 =>
                     ElementIndex(errors[i].Field)
                        <= ElementIndex(errors[j].Field)

\* C14: the field path of every finding starts at the IR root (Metadata or
\* an indexed element of Functions, Events, Errors, Types) and carries every
\* enclosing element; findings come metadata first, then functions, events,
\* errors and custom types by index; no two findings share a path.
C14_FieldPaths ==
    Validated =>
        /\ \A i \in 1..Len(findings[1].errors) :
              Section(findings[1].errors[i].Field) # 0
        /\ InOrder(findings[1].errors)
        /\ DistinctFields(findings[1].errors)
        /\ (Len(TheIR.Functions) = 3 /\ TheIR.Functions[3] = V_emptyBaseInput)
              => \E i \in 1..Len(findings[1].errors) :
                    findings[1].errors[i].Field = P_example

\* C15: an IR that Parse returns has no findings.
C15_ParseValidated ==
    \A r \in Runs : ParsedOK(r) => Validate(result[r].ir) = <<>>

(***************************************************************************)
(* Render on ContractIRs built by the caller, with a template directory    *)
(* (SpecRender)                                                            *)
(***************************************************************************)
MaxRenderFunctions == 2

MaxOverrides == 1

T_address == <<"a", "d", "d", "r", "e", "s", "s">>

T_uint256 == <<"u", "i", "n", "t", "2", "5", "6">>

T_bool == <<"b", "o", "o", "l">>

T_bytes32 == <<"b", "y", "t", "e", "s", "3", "2">>

N_balanceOf == <<"b", "a", "l", "a", "n", "c", "e", "O", "f">>

N_transfer == <<"t", "r", "a", "n", "s", "f", "e", "r">>

N_sum == <<"s", "u", "m">>

RType(base) == [ZeroParameterType EXCEPT !.BaseType = base]

RArray(base) ==
    [ZeroParameterType EXCEPT !.BaseType = base, !.IsArray = TRUE,
                              !.ChainData = ArrayChainData(0),
                              !.ChainDataNil = FALSE]

R_balanceOf ==
    VFunction(N_balanceOf, <<VParam(N_name, RType(T_address))>>,
              <<VParam(<<>>, RType(T_uint256))>>, "view", "public")

R_transfer ==
    VFunction(N_transfer,
              <<VParam(N_name, RType(T_address)),
                VParam(N_x, RType(T_uint256))>>,
              <<VParam(<<>>, RType(T_bool))>>, "nonpayable", "public")

R_sum ==
    VFunction(N_sum,
              <<VParam(N_x, RArray(T_uint256)), VParam(N_age, RType(T_bool)),
                VParam(N_name, RType(T_string)),
                VParam(N_f, RType(T_bytes32))>>,
              <<>>, "pure", "public")

R_constructor ==
    [VFunction(S_constructor, <<VParam(N_x, RType(T_uint256))>>, <<>>,
               "view", "public") EXCEPT !.IsConstructor = TRUE]

RFunctions == {R_balanceOf, R_transfer, R_sum, R_constructor}

N_Sum == <<"S", "u", "m">>

\* a function whose name differs from sum in letter case only
R_Sum == VFunction(N_Sum, <<>>, <<>>, "view", "public")

RMetadata == [Token EXCEPT !.Chain = S_ethereum]

RenderIRs ==
    { [NewContract(RMetadata) EXCEPT !.Functions = <<R_sum, R_Sum>>,
                                     !.ErrorsNil = TRUE] }
    \cup
    [Metadata  : {RMetadata},
     Functions : SeqsUpTo(RFunctions, MaxRenderFunctions),
     Events    : {<<>>},
     Errors    : {<<>>},
     ErrorsNil : {TRUE},
     Types     : {<<>>},
     TypesNil  : {TRUE}]

\* the IR of another contract
R_other ==
    [NewContract([Token EXCEPT !.Name = N_name])
        EXCEPT !.Functions = <<R_transfer, R_balanceOf>>]

Overridden(templates) == {name \in TemplateNames : templates[name] # "absent"}

TemplateDirs ==
    {t \in [TemplateNames -> TemplateStates] :
        Cardinality(Overridden(t)) <= MaxOverrides}
    \cup { [NoTemplates EXCEPT !["tsconfig.json.tmpl"] = "unparsable",
                               !["README.md.tmpl"] = "unreadable"],
           [NoTemplates EXCEPT !["package.json.tmpl"] = "custom",
                               !["server.ts.tmpl"] = "unexecutable"],
           [NoTemplates EXCEPT !["package.json.tmpl"] = "custom",
                               !["README.md.tmpl"] = "custom"] }

Holding(c) == [err |-> "nil", irNil |-> FALSE, ir |-> c]

\* two callers that hold a ContractIR each, the same or not, and render with
\* the same template directory
InitRender ==
    /\ heap = <<>>
    /\ parseCalls = [r \in Runs |-> 0]
    /\ pc = [r \in Runs |-> "returned"]
    /\ parser = [r \in Runs |-> 0]
    /\ input = [r \in Runs |-> NoInput]
    /\ idx = [r \in Runs |-> 0]
    /\ contract = [r \in Runs |-> NilContract]
    /\ \E c \in RenderIRs, other \in BOOLEAN :
          result = [r \in Runs |->
                       IF r = 1 \/ ~other THEN Holding(c)
                       ELSE Holding(R_other)]
    /\ files = [r \in Runs |-> NoFiles]
    /\ findings = [r \in Runs |-> NoFindings]
    /\ templateDir \in TemplateDirs
    /\ earlier = [r \in Runs |-> NoFiles]
    /\ before = [r \in Runs |-> NoFindings]
    /\ cli = NoCommand

NextRender ==
    \/ RenderCall(1)
    \/ RenderAgain(1)
    \/ RenderCall(2)

SpecRender == InitRender /\ [][NextRender]_vars

\* the run whose rendering the properties read
Rendered == files[1].err = "nil"

TheFunctions == result[1].ir.Functions

TheServer == files[1].files["src/server.ts"].text

DefaultServer == Rendered /\ templateDir["server.ts.tmpl"] = "absent"

\* "its state-mutability is 'pure' or 'view' and none of isConstructor,
\* isFallback, isReceive is set"
Qualifies(f) ==
    /\ f.StateMutability \in {"pure", "view"}
    /\ ~f.IsConstructor
    /\ ~f.IsFallback
    /\ ~f.IsReceive

Qualifying == {i \in 1..Len(TheFunctions) : Qualifies(TheFunctions[i])}

HasEnumMember(f) ==
    \E k \in 1..Len(TheServer.enum) : TheServer.enum[k].value = f.Name

HasTool(f) ==
    \E k \in 1..Len(TheServer.tools) : TheServer.tools[k].name = upper(f.Name)

HasBranch(f) ==
    \E k \in 1..Len(TheServer.branches) :
        TheServer.branches[k].method = f.Name

PathSet == {Paths[i] : i \in 1..Len(Paths)}

\* the states of a template file with which its render function fails
Failing == {"unreadable", "unparsable", "unexecutable"}

FailingPaths ==
    {i \in 1..Len(Paths) : templateDir[TemplateName(Paths[i])] \in Failing}

\* C17: a Render call returns either no error and a map whose paths are the
\* six output paths, whatever the contract, or an error and a nil map; it
\* returns the error exactly when the template of some file fails to load,
\* parse or execute, and the error is the one of the first such file.
C17_AllOrNothing ==
    \A r \in Runs :
        /\ files[r].err = "nil" =>
              /\ ~files[r].filesNil
              /\ DOMAIN files[r].files = PathSet
              /\ FailingPaths = {}
        /\ files[r].err = "error" =>
              /\ files[r].filesNil
              /\ files[r].files = EmptyMap
              /\ FailingPaths # {}
              /\ files[r].failedAt \in FailingPaths
              /\ \A i \in FailingPaths : files[r].failedAt <= i

\* the first file renders from its template and a later one fails
C17_Witness ==
    /\ files[1].err = "error"
    /\ files[1].filesNil
    /\ templateDir["package.json.tmpl"] = "custom"
    /\ templateDir["server.ts.tmpl"] = "unexecutable"
    /\ files[1].failedAt = 3

ScalarValidator(base) ==
    IF HasPrefix(base, <<"u", "i", "n", "t">>) \/ HasPrefix(base, <<"i", "n", "t">>)
    THEN <<"z.number()">>
    ELSE IF base = T_bool THEN <<"z.boolean()">>
    ELSE <<"z.string()">>

\* an array validator wraps the validator of the element
TableValidator(type) ==
    IF type.IsArray THEN <<"z.array">> \o ScalarValidator(type.BaseType)
    ELSE ScalarValidator(type.BaseType)

\* the schema the service entry file declares for the function at position
\* i of the IR: schemas are declared for the functions that are no
\* constructor, fallback or receive, in their order
SchemaAt(i) ==
    TheServer.schemas[Cardinality({j \in 1..i : NotSpecial(TheFunctions[j])})]

\* C19: in the schema of a function, the validator of each input parameter
\* is the one the mapping table gives its type: numeric for an integer-like
\* base type, boolean for bool, string for address, string and bytes types,
\* an array validator around the validator of the element for an array.
C19_ValidatorByTable ==
    DefaultServer =>
        \A i \in 1..Len(TheFunctions) :
            NotSpecial(TheFunctions[i]) =>
                \A k \in 1..Len(TheFunctions[i].Inputs) :
                    <<SchemaAt(i).fields[k].validator>>
                        = TableValidator(TheFunctions[i].Inputs[k].Type)

\* what Render returns for the contract of run r without any template file
DefaultRendering(r) == Render(NoTemplates, result[r].ir)

\* the output is the one the template file of the directory writes
FromFile(output, ir) ==
    /\ output.template = "file"
    /\ output.text = CustomContent(ir)

\* the output is the one the default rendering has
AsDefault(output, default) ==
    /\ output.template = "built-in"
    /\ default.template = "built-in"
    /\ output.text = default.text

\* C20: in the map a Render call returns, the content of each output file is
\* what the template file of its name in the template directory writes when
\* the directory holds one, and what the built-in template of that file
\* writes when it holds none, whatever the directory holds for the other
\* files: a file whose template is not overridden has the content of the
\* default rendering.
C20_PerFileTemplate ==
    \A r \in Runs :
        files[r].err = "nil" =>
            \A path \in PathSet :
                IF templateDir[TemplateName(path)] = "absent"
                THEN AsDefault(files[r].files[path],
                               DefaultRendering(r).files[path])
                ELSE FromFile(files[r].files[path], result[r].ir)

\* package.json.tmpl alone is overridden: package.json is what the file
\* writes, not what the default rendering has, and every other file is as in
\* the default rendering
C20_Witness ==
    /\ Rendered
    /\ Overridden(templateDir) = {"package.json.tmpl"}
    /\ FromFile(files[1].files["package.json"], result[1].ir)
    /\ ~AsDefault(files[1].files["package.json"],
                  DefaultRendering(1).files["package.json"])
    /\ \A path \in PathSet \ {"package.json"} :
          AsDefault(files[1].files[path], DefaultRendering(1).files[path])

(***************************************************************************)
(* The JSON form of a ContractIR: what encoding/json writes and reads for  *)
(* the struct tags of the IR.  A member of a JSON object is absent, null   *)
(* or a value                                                              *)
(***************************************************************************)
Member(present, null, value) ==
    [present |-> present, null |-> null, value |-> value]

\* a scalar field tagged omitempty: left out when it is the zero value
MarshalOmitEmpty(zero, v) == Member(v # zero, FALSE, v)

\* reading a scalar field: the zero value of a new struct stays when the
\* member is absent
ScalarOf(member, zero) == IF member.present THEN member.value ELSE zero

\* a slice field: null for a nil slice, left out under omitempty when it has
\* no element, nil or not
MarshalSlice(omitempty, isNil, elems) ==
    Member(~(omitempty /\ elems = <<>>), isNil, elems)

SliceOf(member) ==
    IF member.present /\ ~member.null THEN member.value ELSE <<>>

\* an absent or null member leaves the slice or map nil
NilOf(member) == ~member.present \/ member.null

\* a map field tagged omitempty
MarshalMap(isNil, m) == Member(DOMAIN m # {}, isNil, m)

MapOf(member) ==
    IF member.present /\ ~member.null THEN member.value ELSE EmptyMap

RECURSIVE MarshalType(_)
MarshalType(t) ==
    [baseType   |-> t.BaseType,
     isArray    |-> MarshalOmitEmpty(FALSE, t.IsArray),
     arraySize  |-> MarshalOmitEmpty(0, t.ArraySize),
     isMap      |-> MarshalOmitEmpty(FALSE, t.IsMap),
     mapKeyType |-> MarshalOmitEmpty(<<>>, t.MapKeyType),
     components |-> MarshalSlice(TRUE, t.ComponentsNil,
                        [i \in 1..Len(t.Components) |->
                            [name |-> t.Components[i].Name,
                             type |-> MarshalType(t.Components[i].Type)]]),
     chainData  |-> MarshalMap(t.ChainDataNil, t.ChainData)]

RECURSIVE UnmarshalType(_)
UnmarshalType(j) ==
    [BaseType      |-> j.baseType,
     IsArray       |-> ScalarOf(j.isArray, FALSE),
     ArraySize     |-> ScalarOf(j.arraySize, 0),
     IsMap         |-> ScalarOf(j.isMap, FALSE),
     MapKeyType    |-> ScalarOf(j.mapKeyType, <<>>),
     Components    |-> [i \in 1..Len(SliceOf(j.components)) |->
                           [Name |-> SliceOf(j.components)[i].name,
                            Type |-> UnmarshalType(
                                        SliceOf(j.components)[i].type)]],
     ComponentsNil |-> NilOf(j.components),
     ChainData     |-> MapOf(j.chainData),
     ChainDataNil  |-> NilOf(j.chainData)]

MarshalParameters(params) ==
    [i \in 1..Len(params) |->
        [name |-> params[i].Name, type |-> MarshalType(params[i].Type)]]

UnmarshalParameters(js) ==
    [i \in 1..Len(js) |->
        [Name |-> js[i].name, Type |-> UnmarshalType(js[i].type)]]

MarshalFunction(f) ==
    [name            |-> f.Name,
     description     |-> MarshalOmitEmpty(<<>>, f.Description),
     signature       |-> MarshalOmitEmpty(<<>>, f.Signature),
     selector        |-> MarshalOmitEmpty(<<>>, f.Selector),
     inputs          |-> MarshalSlice(FALSE, FALSE, MarshalParameters(f.Inputs)),
     outputs         |-> MarshalSlice(FALSE, FALSE, MarshalParameters(f.Outputs)),
     stateMutability |-> f.StateMutability,
     visibility      |-> MarshalOmitEmpty("", f.Visibility),
     isConstructor   |-> MarshalOmitEmpty(FALSE, f.IsConstructor),
     isFallback      |-> MarshalOmitEmpty(FALSE, f.IsFallback),
     isReceive       |-> MarshalOmitEmpty(FALSE, f.IsReceive),
     chainData       |-> MarshalMap(f.ChainDataNil, f.ChainData)]

UnmarshalFunction(j) ==
    [Name            |-> j.name,
     Description     |-> ScalarOf(j.description, <<>>),
     Signature       |-> ScalarOf(j.signature, <<>>),
     Selector        |-> ScalarOf(j.selector, <<>>),
     Inputs          |-> UnmarshalParameters(SliceOf(j.inputs)),
     Outputs         |-> UnmarshalParameters(SliceOf(j.outputs)),
     StateMutability |-> j.stateMutability,
     Visibility      |-> ScalarOf(j.visibility, ""),
     IsConstructor   |-> ScalarOf(j.isConstructor, FALSE),
     IsFallback      |-> ScalarOf(j.isFallback, FALSE),
     IsReceive       |-> ScalarOf(j.isReceive, FALSE),
     ChainData       |-> MapOf(j.chainData),
     ChainDataNil    |-> NilOf(j.chainData)]

MarshalEvent(e) ==
    [name        |-> e.Name,
     description |-> MarshalOmitEmpty(<<>>, e.Description),
     signature   |-> MarshalOmitEmpty(<<>>, e.Signature),
     parameters  |-> MarshalSlice(FALSE, FALSE,
                        [i \in 1..Len(e.Parameters) |->
                            [name    |-> e.Parameters[i].Name,
                             type    |-> MarshalType(e.Parameters[i].Type),
                             indexed |-> e.Parameters[i].Indexed]]),
     chainData   |-> MarshalMap(e.ChainDataNil, e.ChainData)]

UnmarshalEvent(j) ==
    [Name         |-> j.name,
     Description  |-> ScalarOf(j.description, <<>>),
     Signature    |-> ScalarOf(j.signature, <<>>),
     Parameters   |-> [i \in 1..Len(SliceOf(j.parameters)) |->
                          [Name    |-> SliceOf(j.parameters)[i].name,
                           Type    |-> UnmarshalType(
                                          SliceOf(j.parameters)[i].type),
                           Indexed |-> SliceOf(j.parameters)[i].indexed]],
     ChainData    |-> MapOf(j.chainData),
     ChainDataNil |-> NilOf(j.chainData)]

MarshalContractError(e) ==
    [name        |-> e.Name,
     description |-> MarshalOmitEmpty(<<>>, e.Description),
     parameters  |-> MarshalSlice(TRUE, e.ParametersNil,
                                  MarshalParameters(e.Parameters))]

UnmarshalContractError(j) ==
    [Name          |-> j.name,
     Description   |-> ScalarOf(j.description, <<>>),
     Parameters    |-> UnmarshalParameters(SliceOf(j.parameters)),
     ParametersNil |-> NilOf(j.parameters)]

MarshalCustomType(t) ==
    [name        |-> t.Name,
     description |-> MarshalOmitEmpty(<<>>, t.Description),
     fields      |-> MarshalSlice(FALSE, FALSE, MarshalParameters(t.Fields))]

UnmarshalCustomType(j) ==
    [Name        |-> j.name,
     Description |-> ScalarOf(j.description, <<>>),
     Fields      |-> UnmarshalParameters(SliceOf(j.fields))]

\* source is a pointer tagged omitempty: left out when nil
MarshalMetadata(m) ==
    [name    |-> m.Name,
     address |-> MarshalOmitEmpty("", m.Address),
     chain   |-> m.Chain,
     source  |-> Member(~m.SourceNil, FALSE, [language |-> m.Language])]

UnmarshalMetadata(j) ==
    [Name      |-> j.name,
     Chain     |-> j.chain,
     Address   |-> ScalarOf(j.address, ""),
     SourceNil |-> ~j.source.present,
     Language  |-> ScalarOf(j.source, [language |-> <<>>]).language]

\* json.Marshal of a ContractIR
Marshal(c) ==
    [metadata  |-> MarshalMetadata(c.Metadata),
     functions |-> MarshalSlice(FALSE, FALSE,
                      [i \in 1..Len(c.Functions) |->
                          MarshalFunction(c.Functions[i])]),
     events    |-> MarshalSlice(FALSE, FALSE,
                      [i \in 1..Len(c.Events) |-> MarshalEvent(c.Events[i])]),
     errors    |-> MarshalSlice(TRUE, c.ErrorsNil,
                      [i \in 1..Len(c.Errors) |->
                          MarshalContractError(c.Errors[i])]),
     types     |-> MarshalSlice(TRUE, c.TypesNil,
                      [i \in 1..Len(c.Types) |->
                          MarshalCustomType(c.Types[i])])]

\* json.Unmarshal into a new ContractIR
Unmarshal(j) ==
    [Metadata  |-> UnmarshalMetadata(j.metadata),
     Functions |-> [i \in 1..Len(SliceOf(j.functions)) |->
                       UnmarshalFunction(SliceOf(j.functions)[i])],
     Events    |-> [i \in 1..Len(SliceOf(j.events)) |->
                       UnmarshalEvent(SliceOf(j.events)[i])],
     Errors    |-> [i \in 1..Len(SliceOf(j.errors)) |->
                       UnmarshalContractError(SliceOf(j.errors)[i])],
     ErrorsNil |-> NilOf(j.errors),
     Types     |-> [i \in 1..Len(SliceOf(j.types)) |->
                       UnmarshalCustomType(SliceOf(j.types)[i])],
     TypesNil  |-> NilOf(j.types)]

\* the dynamic type of the value the parser stores under a key of a
\* chain-specific attribute map
GoTypeOf(key) ==
    IF key \in {"arraySize", "indexedCount"} THEN "int"
    ELSE IF key \in {"typeDescription", "originalName", "originalSignature"}
    THEN "string"
    ELSE "bool"

\* the dynamic type of a value read from JSON into an interface{}: every
\* number is a float64
DecodedType(type) == IF type = "int" THEN "float64" ELSE type

DynamicTypes(m) == [k \in DOMAIN m |-> GoTypeOf(k)]

DecodedTypes(m) == [k \in DOMAIN m |-> DecodedType(GoTypeOf(k))]

\* C21: for every IR Parse returns, the IR read back from its JSON form
\* equals the IR field for field, nil and empty optional collections and
\* attribute maps told apart; the values of the attribute maps of functions
\* and events come back with the dynamic type they had; and the JSON form
\* leaves out every optional collection that has no element.
C21_RoundTrip ==
    \A r \in Runs :
        ParsedOK(r) =>
            /\ Unmarshal(Marshal(result[r].ir)) = result[r].ir
            /\ \A i \in 1..Len(result[r].ir.Functions) :
                  DecodedTypes(result[r].ir.Functions[i].ChainData)
                      = DynamicTypes(result[r].ir.Functions[i].ChainData)
            /\ \A i \in 1..Len(result[r].ir.Events) :
                  DecodedTypes(result[r].ir.Events[i].ChainData)
                      = DynamicTypes(result[r].ir.Events[i].ChainData)
            /\ result[r].ir.Errors = <<>> =>
                  ~Marshal(result[r].ir).errors.present
            /\ result[r].ir.Types = <<>> =>
                  ~Marshal(result[r].ir).types.present

(***************************************************************************)
(* A caller that parses once and then validates and renders the IR, each   *)
(* up to twice, in any order (SpecUse)                                     *)
(***************************************************************************)
MaxUseItems == 2

UseArtifacts == {Artifact(items) : items \in SeqsUpTo(Entries, MaxUseItems)}

NextUse ==
    \/ NewEVMABIParser(1)
    \/ ParseDecode(1, UseArtifacts, 1)
    \/ ParseLoop(1)
    \/ ParseReturn(1)
    \/ ValidateCall(1)
    \/ ValidateAgain(1)
    \/ RenderCall(1)
    \/ RenderAgain(1)

SpecUse == Init /\ [][NextUse]_vars

\* C22: once Parse has returned, no Validate or Render call changes the
\* result the caller holds, the IR with all its fields; and a further
\* Validate call returns the findings of the call before.
C22_IRReadOnly ==
    /\ [][\A r \in Runs :
            (pc[r] = "returned" /\ pc'[r] = "returned")
                => result'[r] = result[r]]_vars
    /\ [](\A r \in Runs : before[r].done => findings[r] = before[r])

\* the caller validated twice, with findings, and rendered twice
C22_Witness ==
    /\ before[1].done
    /\ findings[1].errors # <<>>
    /\ earlier[1].err = "nil"
    /\ files[1].err = "nil"
    /\ result[1].ir.Functions # <<>>

(***************************************************************************)
(* The generate-mcp command: run (SpecCLI).  The command is run 1          *)
(***************************************************************************)
Chains == {"ethereum", "evm", "solana", "cosmos"}

Langs == {"ts", "typescript", "python", "py", "rust"}

S_evm == <<"e", "v", "m">>

\* the --chain flag as the Chain of the metadata
ChainOf(flag) == IF flag = "ethereum" THEN S_ethereum ELSE S_evm

\* filepath.Dir of an output path, relative to the output directory
Dir(path) ==
    CASE path = "src/server.ts" -> "src"
      [] path = "inspector-e2e/e2e-tests.spec.ts" -> "inspector-e2e"
      [] OTHER -> "."

\* the artifact files the command is given
CliItems ==
    { <<>>,
      <<Entry("function", N_f, <<Param(N_x, T_fixed)>>, <<>>, "view",
              FALSE, FALSE)>>,
      <<Entry("function", N_g, <<Param(N_x, T_badSize)>>, <<>>, "view",
              FALSE, FALSE)>>,
      <<Entry("function", N_g, <<>>, <<Param(N_x, T_reversed)>>, "view",
              FALSE, FALSE)>> }

CliArtifacts(flag) ==
    {[a EXCEPT !.metadata.Chain = ChainOf(flag)] :
        a \in {Artifact(items) : items \in CliItems} \cup {Malformed}}

\* what the default template directory holds when the command runs
CliTemplateDirs ==
    {NoTemplates, [NoTemplates EXCEPT !["server.ts.tmpl"] = "unparsable"]}

InitCLI ==
    /\ heap = <<>>
    /\ parseCalls = [r \in Runs |-> 0]
    /\ pc = [r \in Runs |-> "start"]
    /\ parser = [r \in Runs |-> 0]
    /\ input = [r \in Runs |-> NoInput]
    /\ idx = [r \in Runs |-> 0]
    /\ contract = [r \in Runs |-> NilContract]
    /\ result = [r \in Runs |-> NoResult]
    /\ files = [r \in Runs |-> NoFiles]
    /\ findings = [r \in Runs |-> NoFindings]
    /\ templateDir \in CliTemplateDirs
    /\ earlier = [r \in Runs |-> NoFiles]
    /\ before = [r \in Runs |-> NoFindings]
    /\ \E artifact \in BOOLEAN, chain \in Chains, lang \in Langs :
          cli = [NoCommand EXCEPT !.stage = "open", !.artifact = artifact,
                                  !.chain = chain, !.lang = lang]

parserVars ==
    <<heap, parseCalls, pc, parser, input, idx, contract, result, files,
      findings, rendererVars, before>>

\* run returns an error: main prints it and exits with status 1
Fail(diagnostic) ==
    cli' = [cli EXCEPT !.stage = "exited", !.exit = "1",
                       !.diagnostic = diagnostic]

Goto(stage) == cli' = [cli EXCEPT !.stage = stage]

\* file, err := os.Open(artifactPath)
CliOpen ==
    /\ cli.stage = "open"
    /\ IF cli.artifact THEN Goto("chain")
       ELSE Fail("failed to open artifact file")
    /\ UNCHANGED parserVars

\* switch chainType
CliChain ==
    /\ cli.stage = "chain"
    /\ IF cli.chain \in {"ethereum", "evm"} THEN Goto("parse")
       ELSE IF cli.chain = "solana"
       THEN Fail("solana support not implemented yet")
       ELSE Fail("unsupported chain type")
    /\ UNCHANGED parserVars

\* p := parser.NewEVMABIParser()
CliNewParser == cli.stage = "parse" /\ NewEVMABIParser(1)

\* contractIR, err = p.Parse(file, metadata)
CliParseDecode ==
    cli.stage = "parse" /\ ParseDecode(1, CliArtifacts(cli.chain), 1)

CliParseLoop == cli.stage = "parse" /\ ParseLoop(1)

CliParseReturn == cli.stage = "parse" /\ ParseReturn(1)

\* Parse has returned: its error ends the run
CliParsed ==
    /\ cli.stage = "parse"
    /\ pc[1] = "returned"
    /\ IF result[1].err = "nil" THEN Goto("lang")
       ELSE Fail("failed to parse EVM ABI")
    /\ UNCHANGED parserVars

\* a panic in Parse ends the process with status 2 and the panic message
CliPanicked ==
    /\ cli.stage = "parse"
    /\ pc[1] = "panicked"
    /\ cli' = [cli EXCEPT !.stage = "exited", !.exit = "2",
                          !.diagnostic = "panic"]
    /\ UNCHANGED parserVars

\* switch lang
CliLang ==
    /\ cli.stage = "lang"
    /\ IF cli.lang \in {"ts", "typescript"} THEN Goto("render")
       ELSE IF cli.lang \in {"python", "py"}
       THEN Fail("python support not implemented yet")
       ELSE Fail("unsupported language")
    /\ UNCHANGED parserVars

\* files, err = r.Render(contractIR)
CliRender == cli.stage = "render" /\ RenderCall(1)

\* going on to the output directory whatever Render returned
CliRenderedAnyway ==
    /\ cli.stage = "render"
    /\ files[1].err # "none"
    /\ Goto("mkdir")
    /\ UNCHANGED parserVars

\* Render has returned: its error ends the run
CliRendered ==
    /\ cli.stage = "render"
    /\ files[1].err # "none"
    /\ IF files[1].err = "nil" THEN Goto("mkdir")
       ELSE Fail("failed to render TypeScript MCP server")
    /\ UNCHANGED parserVars

\* os.MkdirAll(outputDir), which the file system lets succeed or not
CliMkdir ==
    /\ cli.stage = "mkdir"
    /\ \E ok \in BOOLEAN :
          IF ok THEN cli' = [cli EXCEPT !.stage = "mkdirSrc",
                                        !.dirs = @ \cup {"."}]
          ELSE Fail("failed to create output directory")
    /\ UNCHANGED parserVars

\* os.MkdirAll(outputDir/src)
CliMkdirSrc ==
    /\ cli.stage = "mkdirSrc"
    /\ \E ok \in BOOLEAN :
          IF ok THEN cli' = [cli EXCEPT !.stage = "write",
                                        !.dirs = @ \cup {"src"}]
          ELSE Fail("failed to create src directory")
    /\ UNCHANGED parserVars

\* one iteration of the range over the file map, which visits the paths in
\* any order: the parent directory, then the file
CliWrite ==
    /\ cli.stage = "write"
    /\ \E path \in DOMAIN files[1].files \ cli.written, ok \in BOOLEAN :
          IF ok THEN cli' = [cli EXCEPT !.dirs = @ \cup {Dir(path)},
                                        !.written = @ \cup {path}]
          ELSE Fail("failed to write file")
    /\ UNCHANGED parserVars

\* the range is over: the success message, status 0
CliDone ==
    /\ cli.stage = "write"
    /\ DOMAIN files[1].files \subseteq cli.written
    /\ cli' = [cli EXCEPT !.stage = "exited", !.exit = "0",
                          !.diagnostic = "MCP server generated successfully"]
    /\ UNCHANGED parserVars

NextCLI ==
    \/ CliOpen
    \/ CliChain
    \/ CliNewParser
    \/ CliParseDecode
    \/ CliParseLoop
    \/ CliParseReturn
    \/ CliParsed
    \/ CliPanicked
    \/ CliLang
    \/ CliRender
    \/ CliRendered
    \/ CliMkdir
    \/ CliMkdirSrc
    \/ CliWrite
    \/ CliDone

SpecCLI == InitCLI /\ [][NextCLI]_vars

Exited == cli.stage = "exited"

\* the run ended because its artifact, its chain or language flag, Parse or
\* Render failed
FailedBeforeOutput ==
    /\ Exited
    /\ \/ ~cli.artifact
       \/ cli.chain \notin {"ethereum", "evm"}
       \/ pc[1] = "panicked"
       \/ (pc[1] = "returned" /\ result[1].err # "nil")
       \/ cli.lang \notin {"ts", "typescript"}
       \/ files[1].err = "error"

QualifyingAt(k) ==
    CHOOSE i \in Qualifying : Cardinality({j \in Qualifying : j <= i}) = k

\* C24: in the service entry file rendered from the built-in template, the
\* k-th enum member, the k-th tool and the k-th branch are those of the k-th
\* exposed function of the IR, the i-th entry of the ABI is that of the i-th
\* function, and the fields of each schema and the arguments of each branch
\* are the inputs of the function in their order.
C24_StableOrdering ==
    DefaultServer =>
        /\ \A k \in 1..Len(TheServer.enum) :
              TheServer.enum[k] = EnumMember(TheFunctions[QualifyingAt(k)])
        /\ \A k \in 1..Len(TheServer.tools) :
              TheServer.tools[k].name = upper(TheFunctions[QualifyingAt(k)].Name)
        /\ \A k \in 1..Len(TheServer.branches) :
              /\ TheServer.branches[k].method
                    = TheFunctions[QualifyingAt(k)].Name
              /\ TheServer.branches[k].args
                    = [n \in 1..Len(TheFunctions[QualifyingAt(k)].Inputs) |->
                          TheFunctions[QualifyingAt(k)].Inputs[n].Name]
        /\ Len(TheServer.abi) = Len(TheFunctions)
        /\ \A i \in 1..Len(TheFunctions) :
              /\ TheServer.abi[i].name = TheFunctions[i].Name
              /\ NotSpecial(TheFunctions[i]) =>
                    /\ Len(SchemaAt(i).fields) = Len(TheFunctions[i].Inputs)
                    /\ \A n \in 1..Len(TheFunctions[i].Inputs) :
                          SchemaAt(i).fields[n].name
                              = TheFunctions[i].Inputs[n].Name

\* sum declared before balanceOf: the members are in that order
C24_Witness ==
    /\ DefaultServer
    /\ TheFunctions = <<R_sum, R_balanceOf>>
    /\ TheServer.enum[1].value = N_sum
    /\ TheServer.enum[2].value = N_balanceOf
    /\ TheServer.branches[1].args = <<N_x, N_age, N_name, N_f>>

ExposedNamesDistinct ==
    \A i, j \in Qualifying :
        i # j => TheFunctions[i].Name # TheFunctions[j].Name

\* C25: the service entry file rendered from the built-in template has one
\* enum member and one branch per exposed function and always the default
\* branch; when the names of the exposed functions are pairwise distinct, so
\* are the enum member identifiers and so are the case labels.
C25_DistinctLabels ==
    DefaultServer =>
        /\ Len(TheServer.enum) = Cardinality(Qualifying)
        /\ Len(TheServer.branches) = Cardinality(Qualifying)
        /\ TheServer.default = "Unknown tool: "
        /\ ExposedNamesDistinct =>
              /\ \A k, n \in 1..Len(TheServer.enum) :
                    k # n => TheServer.enum[k].member # TheServer.enum[n].member
              /\ \A k, n \in 1..Len(TheServer.branches) :
                    k # n => TheServer.branches[k].label
                                # TheServer.branches[n].label

\* C26: a 'constructor' or 'fallback' entry yields a Function whose state
\* mutability is resolved as for a 'function' entry (declared, else view
\* when constant, else payable when payable, else nonpayable); the
\* constructor is named constructor, is flagged IsConstructor and has no
\* outputs, the fallback is named fallback, is flagged IsFallback and has
\* no inputs and no outputs.
C26_SpecialMutability ==
    ParsedOK(1) =>
        \A i \in 1..Len(input[1].items) :
            LET item == input[1].items[i]
                fn == result[1].ir.Functions[FnIndex(input[1].items, i)]
            IN  /\ item.Type = "constructor" =>
                      /\ fn.Name = S_constructor
                      /\ fn.IsConstructor
                      /\ fn.Outputs = <<>>
                      /\ fn.StateMutability = FunctionMutability(item)
                /\ item.Type = "fallback" =>
                      /\ fn.Name = S_fallback
                      /\ fn.IsFallback
                      /\ fn.Inputs = <<>>
                      /\ fn.Outputs = <<>>
                      /\ fn.StateMutability = FunctionMutability(item)

\* every ParameterType of the tree under t that is an array has a size >= 0
RECURSIVE SizesNonNegative(_)
SizesNonNegative(t) ==
    /\ t.IsArray => t.ArraySize >= 0
    /\ \A i \in 1..Len(t.Components) : SizesNonNegative(t.Components[i].Type)

\* C27: in an IR Parse returns, every ParameterType that is an array has an
\* array size >= 0, the component types included.
C27_ArraySizeNonNegative ==
    ParsedOK(1) => SizesNonNegative(Resolved)

\* the declared type is an element type without brackets followed by one
\* bracket pair
OneDimension(s) == HasSizeSuffix(s) /\ NoBrackets(BeforeSuffix(s))

Has(m, key) == key \in DOMAIN m /\ m[key] = TRUE

\* C28: for a type declared as an element type followed by "[N]", N a number
\* (0 included), or by "[]", the attribute map of the resolved type has
\* isArray; for "[N]" it has isFixedArray and arraySize = N and no
\* isDynamicArray, for "[]" it has isDynamicArray and no isFixedArray; an
\* array of tuples has the tuple attributes too.
C28_ArrayAttributes ==
    (ParsedOK(1) /\ OneDimension(Declared.Type)
                 /\ (Numeric(SizeToken(Declared.Type))
                     \/ SizeToken(Declared.Type) = <<>>)) =>
        /\ Resolved.IsArray
        /\ ~Resolved.ChainDataNil
        /\ Has(Resolved.ChainData, "isArray")
        /\ Numeric(SizeToken(Declared.Type)) =>
              /\ Has(Resolved.ChainData, "isFixedArray")
              /\ "arraySize" \in DOMAIN Resolved.ChainData
              /\ Resolved.ChainData["arraySize"]
                    = DigitsValue(SizeToken(Declared.Type))
              /\ "isDynamicArray" \notin DOMAIN Resolved.ChainData
        /\ SizeToken(Declared.Type) = <<>> =>
              /\ Has(Resolved.ChainData, "isDynamicArray")
              /\ "isFixedArray" \notin DOMAIN Resolved.ChainData
        /\ (BeforeSuffix(Declared.Type) = S_tuple /\ ~Declared.ComponentsNil) =>
              /\ Has(Resolved.ChainData, "isTuple")
              /\ "typeDescription" \in DOMAIN Resolved.ChainData

\* every ParameterType of the tree under t that is a map has a key type
RECURSIVE MapsHaveKeys(_)
MapsHaveKeys(t) ==
    /\ t.IsMap => t.MapKeyType # <<>>
    /\ \A i \in 1..Len(t.Components) : MapsHaveKeys(t.Components[i].Type)

\* C29: a type declared "mapping(K => V)", with or without spaces around K
\* and V, resolves to a map with key type K and base type V, an array of
\* it too; and in an IR Parse returns every ParameterType that is a map has
\* a key type that is not empty.
C29_MapResolution ==
    ParsedOK(1) =>
        /\ Declared.Type \in {T_mapping, T_mappingSpaces, T_mappingDyn} =>
              /\ Resolved.IsMap
              /\ Resolved.MapKeyType = <<"x">>
              /\ Resolved.BaseType = <<"u">>
              /\ Resolved.IsArray <=> Declared.Type = T_mappingDyn
        /\ MapsHaveKeys(Resolved)

\* the position, among the entries of a kind of kinds, of entry i
KindIndex(items, kinds, i) ==
    Cardinality({j \in 1..i : items[j].Type \in kinds})

\* the number of entries of a kind of kinds
KindCount(items, kinds) == KindIndex(items, kinds, Len(items))

\* the names of a parameter list, in order
Names(parameters) == [k \in 1..Len(parameters) |-> parameters[k].Name]

\* the indexed flags of a parameter list, in order
IndexedFlags(parameters) ==
    [k \in 1..Len(parameters) |-> parameters[k].Indexed]

\* the special flags a Function of an entry kind carries
FlagsOf(kind) ==
    <<kind = "constructor", kind = "fallback", kind = "receive">>

\* C30: for an artifact Parse accepts, IR.Functions holds one Function per
\* function, constructor, fallback or receive entry, IR.Events one Event per
\* event entry with the names and indexed flags of its parameters, IR.Errors
\* one ContractError per error entry, each in declaration order; and a
\* Function has at most one of IsConstructor, IsFallback, IsReceive set.
C30_EntryAccounting ==
    ParsedOK(1) =>
        LET items == input[1].items
            ir    == result[1].ir
        IN  /\ Len(ir.Functions) = KindCount(items, FunctionKinds)
            /\ Len(ir.Events) = KindCount(items, {"event"})
            /\ Len(ir.Errors) = KindCount(items, {"error"})
            /\ \A i \in 1..Len(items) :
                  LET item == items[i]
                  IN  /\ item.Type \in FunctionKinds =>
                            LET fn == ir.Functions[FnIndex(items, i)]
                                k  == Repeat(items, i)
                            IN  /\ <<fn.IsConstructor, fn.IsFallback,
                                     fn.IsReceive>> = FlagsOf(item.Type)
                                /\ item.Type = "function" =>
                                      /\ fn.Name =
                                            IF k = 0 THEN item.Name
                                            ELSE item.Name \o <<"_">>
                                                 \o Itoa(k)
                                      /\ Names(fn.Inputs) = Names(item.Inputs)
                                      /\ Names(fn.Outputs)
                                            = Names(item.Outputs)
                                /\ item.Type = "constructor" =>
                                      Names(fn.Inputs) = Names(item.Inputs)
                      /\ item.Type = "event" =>
                            LET ev == ir.Events[KindIndex(items, {"event"}, i)]
                            IN  /\ ev.Name = item.Name
                                /\ Names(ev.Parameters) = Names(item.Inputs)
                                /\ IndexedFlags(ev.Parameters)
                                      = IndexedFlags(item.Inputs)
                      /\ item.Type = "error" =>
                            LET er == ir.Errors[KindIndex(items, {"error"}, i)]
                            IN  /\ er.Name = item.Name
                                /\ Names(er.Parameters) = Names(item.Inputs)
            /\ \A k \in 1..Len(ir.Functions) :
                  Cardinality({f \in {"IsConstructor", "IsFallback",
                                      "IsReceive"} : ir.Functions[k][f]}) <= 1

\* two different events around a constructor, then in the IR in this order
C30_Witness ==
    /\ ParsedOK(1)
    /\ Len(input[1].items) = 3
    /\ input[1].items[1].Type = "event"
    /\ input[1].items[1].Name = N_E
    /\ input[1].items[2].Type = "constructor"
    /\ input[1].items[3].Type = "event"
    /\ input[1].items[3].Name = N_g
    /\ Len(result[1].ir.Events) = 2
    /\ result[1].ir.Events[2].Name = N_g
    /\ result[1].ir.Events[2].Parameters[2].Indexed
    /\ result[1].ir.Functions[1].IsConstructor

====
